---------------------------- MODULE Spec2Model ----------------------------
(***************************************************************************)
(* A model of simple-peer's orchestration layer (src/lite.js): the          *)
(* negotiation coordinator, the connectivity monitor and the duplex stream *)
(* adapter of one Peer, driven by the events of its RTCPeerConnection, its *)
(* RTCDataChannel, its timers and its caller.                              *)
(*                                                                         *)
(* The state of a Peer is a record whose fields carry the names of the     *)
(* object's fields.  Every method is an operator from the record before    *)
(* the call to the record after it, so that a handler which calls other    *)
(* methods is the composition of their operators.  What a step emits,      *)
(* throws or returns is kept in the fields emitted, thrown and returned,   *)
(* which are cleared when the next step begins.                            *)
(*                                                                         *)
(* Scheduling: a callback queued with queueMicrotask runs before any timer *)
(* or engine event; only further synchronous calls of the caller can come  *)
(* before it.                                                              *)
(***************************************************************************)
EXTENDS Naturals, Sequences, FiniteSets

\* peer is the Peer under study (peer1 of the tests); peer2 and wire are the
\* Peer it is paired with and the channel messages in flight between them,
\* and stay null where one Peer is studied alone.
VARIABLES peer, peer2, wire

vars == <<peer, peer2, wire>>

\* ------------------------------------------------------------------ bounds

\* Callbacks of the negotiation pipeline (batched microtask, createOffer
\* timers, createOffer and setLocalDescription promises) pending at once.
MaxPending == 2

\* ------------------------------------------------------------- vocabulary

Null == "null"

IceConnectionStates ==
    {"new", "checking", "connected", "completed", "disconnected", "failed", "closed"}

SignalingStates == {"stable", "have-local-offer", "have-remote-offer"}

ConnectionStates ==
    {"new", "connecting", "connected", "disconnected", "failed", "closed"}

\* What a statistics query reports: it failed, or its items do or do not hold
\* a selected candidate pair, candidate pairs, local candidates.
Stats == [err : BOOLEAN, selected : BOOLEAN, pairs : BOOLEAN, locals : BOOLEAN]

IceRestartPolicies == {"false", "onFailure", "onDisconnect"}

\* Media tracks and streams of the caller, and the identities of the submaps
\* and senders created for them.
Tracks == {"t1", "t2"}

Streams == {"s1", "s2"}

SubmapIds == {"m1", "m2"}

SenderIds == {"x1", "x2"}

\* Chunks a caller writes; the empty string is the chunk JavaScript holds falsy.
Chunks == {"abc", ""}

\* JavaScript's truthiness of a buffered chunk (null and "" are falsy).
Truthy(c) == c # Null /\ c # ""

\* ---------------------------------------------------------- constructor

\* The Peer after its constructor returned, before the microtask of its
\* initial _needsNegotiation() has run.
Peer(initiator, iceRestartEnabled) ==
    [ initiator |-> initiator,
      trickle |-> TRUE,
      bufferedAmountLowThreshold |-> TRUE,
      iceRestartEnabled |-> iceRestartEnabled,
      _iceFailureRecoveryTimer |-> FALSE,
      _destroying |-> FALSE,
      destroyed |-> FALSE,
      _connected |-> FALSE,
      _connecting |-> FALSE,
      _connectedOnce |-> FALSE,
      _pcReady |-> FALSE,
      _channelReady |-> FALSE,
      _channel |-> initiator,
      _pc |-> TRUE,
      _isNegotiating |-> FALSE,
      _isRestartingIce |-> FALSE,
      _firstNegotiation |-> TRUE,
      _batchedNegotiation |-> TRUE,
      _queuedNegotiation |-> FALSE,
      _sendersAwaitingStable |-> <<>>,
      \* _senderMap: track -> submap; a submap: stream -> sender; a sender is
      \* "live" or "removed" once the engine created it
      _senderMap |-> [t \in Tracks |-> Null],
      submaps |-> [m \in SubmapIds |-> [st \in Streams |-> Null]],
      senders |-> [x \in SenderIds |-> Null],
      \* the remote (track, stream) pairs and the remote stream ids seen; the
      \* teardown sets both to null together with _pc, so ~_pc stands for null
      _remoteTracks |-> <<>>,
      _remoteStreams |-> <<>>,
      offerOptions |-> [iceRestart |-> FALSE],
      _iceGatheringComplete |-> FALSE,
      _iceGatheringCompleteTimer |-> FALSE,
      _chunk |-> Null,
      _cb |-> FALSE,
      _interval |-> FALSE,
      _closingInterval |-> initiator,
      _onFinishBound |-> TRUE,
      \* the stream the Peer extends: end() was called, 'finish' and 'end'
      \* were emitted, a _write awaits its callback
      ended |-> FALSE,
      finished |-> FALSE,
      readableEnded |-> FALSE,
      endEmitted |-> FALSE,
      writing |-> FALSE,
      \* the engine's state, as the Peer reads it
      iceConnectionState |-> "new",
      iceGatheringState |-> "new",
      channelState |-> IF initiator THEN "connecting" ELSE Null,
      localDescription |-> Null,
      remoteDescription |-> Null,
      \* candidates the engine reported, and remote candidates it was given
      gathered |-> 0,
      remoteCandidates |-> 0,
      _pendingCandidates |-> <<>>,
      \* the chunks of the 'data' events
      received |-> <<>>,
      \* callbacks queued and not yet run
      microtasks |-> 1,
      streamMicrotasks |-> <<>>,
      offerTimers |-> 0,
      createOfferPending |-> 0,
      setLocalOfferPending |-> 0,
      gatherWaiters |-> <<>>,
      setRemotePending |-> <<>>,
      addCandidatePending |-> <<>>,
      createAnswerPending |-> 0,
      setLocalAnswerPending |-> 0,
      statsPending |-> 0,
      findPairTimers |-> 0,
      finishTimers |-> 0,
      connectListeners |-> 0,
      destroyTimer |-> Null,
      destroyCb |-> Null,
      recoveryTimer |-> 0,
      iceCompleteTimer |-> FALSE,
      \* history: offers scheduled, and restartIce() calls that returned true,
      \* since signaling state "stable" was last handled
      roundsOpen |-> 0,
      restartsSinceStable |-> 0,
      \* history: 'connect' events emitted, sends of the chunk buffered before
      \* connect, and whether the channel opened and ICE connected
      connects |-> 0,
      flushes |-> 0,
      writes |-> 0,
      channelOpened |-> FALSE,
      iceConnected |-> FALSE,
      \* history: ICE returned from "failed" to connected or completed while
      \* the recovery timer was pending
      recovered |-> FALSE,
      connectivity |-> "lost",
      \* history: _needsNegotiation() calls of the batch that was last opened,
      \* and whether a batch has run
      requests |-> 1,
      batchRun |-> FALSE,
      \* history: for each (track, stream), the calls of the engine's addTrack
      \* and the senders it returned; and the calls in which it threw
      engineAdds |-> [t \in Tracks |-> [st \in Streams |-> 0]],
      sendersMade |-> [t \in Tracks |-> [st \in Streams |-> 0]],
      engineThrown |-> 0,
      \* public operations the caller used on the live peer
      operations |-> 0,
      \* the renegotiation request followed in a pair (kept by the initiator):
      \* who made it, whether the initiator created an offer since, and who
      \* emitted 'negotiated' after that offer
      askedBy |-> 0,
      offered |-> FALSE,
      negotiatedBy |-> {},
      \* the engine of a pair after restartIce(): it has to gather again
      regather |-> FALSE,
      \* restartIce() returned true in a connected pair (kept by the
      \* initiator), and who emitted 'reconnect' since
      restarted |-> FALSE,
      reconnectedBy |-> {},
      \* history: the track events the engine delivered, and the 'stream'
      \* events emitted for each stream id
      trackEvents |-> <<>>,
      streamEvents |-> [st \in Streams |-> 0],
      bufferedAmountHigh |-> FALSE,
      \* what the current step did: the events it emitted, the methods of
      \* interest it called, what it threw and returned
      emitted |-> <<>>,
      called |-> <<>>,
      thrown |-> Null,
      returned |-> Null ]

\* ------------------------------------------------------------ step output

\* A step begins with nothing emitted, thrown or returned.
Begin(s) ==
    [s EXCEPT !.emitted = <<>>, !.called = <<>>, !.thrown = Null, !.returned = Null]

emit(s, e) == [s EXCEPT !.emitted = Append(@, e)]

throw(s, e) == [s EXCEPT !.thrown = e]

return(s, v) == [s EXCEPT !.returned = v]

call(s, f) == [s EXCEPT !.called = Append(@, f)]

Emitted(s, e) == \E i \in DOMAIN s.emitted : s.emitted[i] = e

Called(s, f) == \E i \in DOMAIN s.called : s.called[i] = f

\* How many times the step called f.
Calls(s, f) == Cardinality({i \in DOMAIN s.called : s.called[i] = f})

\* ------------------------------------------------------------ destruction

Live(s) == ~s.destroyed /\ ~s._destroying

\* this.end() of the stream: the writable side is ending.
end(s) == [s EXCEPT !.ended = TRUE]

\* _destroy(cb, err) up to its setTimeout: the teardown is queued once.
_destroy_Again(s, cb, err) ==
    [s EXCEPT !._destroying = TRUE, !.destroyTimer = err, !.destroyCb = cb]

_destroy(s, cb, err) ==
    IF s.destroyed \/ s._destroying THEN s
    ELSE [s EXCEPT !._destroying = TRUE, !.destroyTimer = err, !.destroyCb = cb]

__destroy(s, err) == _destroy(end(s), "noop", err)

\* The callback of _destroy's setTimeout.  The stream sets `destroyed` in the
\* callback it passes to _destroy; __destroy passes a callback that does nothing.
DestroyTimeout(s) ==
    LET s1 == [s EXCEPT !.destroyTimer = Null,
                        !.destroyCb = Null,
                        !._connected = FALSE,
                        !._pcReady = FALSE,
                        !._channelReady = FALSE,
                        !._remoteTracks = <<>>,
                        !._remoteStreams = <<>>,
                        !._closingInterval = FALSE,
                        !._interval = FALSE,
                        !._chunk = Null,
                        !._cb = FALSE,
                        !._onFinishBound = FALSE,
                        !.channelState = IF s._channel THEN "closed" ELSE @,
                        !.iceConnectionState = "closed",
                        !._pc = FALSE,
                        !._channel = FALSE]
        s2 == IF s._channel THEN call(s1, "channel.close") ELSE s1
        s3 == IF s.destroyTimer # "none" THEN emit(s2, s.destroyTimer) ELSE s2
    IN  IF s.destroyCb = "stream" THEN [s3 EXCEPT !.destroyed = TRUE] ELSE s3

\* ------------------------------------------------------------ negotiation

_needsNegotiation_Unbatched(s) ==
    [s EXCEPT !._batchedNegotiation = TRUE, !.microtasks = @ + 1,
              !.requests = IF s.microtasks > 0 THEN @ + 1 ELSE 1]

\* _needsNegotiation() up to queueMicrotask.
_needsNegotiation(s) ==
    IF s._batchedNegotiation THEN [s EXCEPT !.requests = @ + 1]
    ELSE [s EXCEPT !._batchedNegotiation = TRUE, !.microtasks = @ + 1,
                   !.requests = 1]

negotiate_AnyRole(s) ==
    LET c == call(s, "negotiate")
    IN  IF s._destroying THEN c
        ELSE IF s.destroyed THEN throw(c, "ERR_DESTROYED")
        ELSE IF s._isNegotiating
             THEN [c EXCEPT !._queuedNegotiation = TRUE]
             ELSE [c EXCEPT !.offerTimers = @ + 1, !.roundsOpen = @ + 1,
                            !._isNegotiating = TRUE]

negotiate_NoQueue(s) ==
    LET c == call(s, "negotiate")
    IN  IF s._destroying THEN c
        ELSE IF s.destroyed THEN throw(c, "ERR_DESTROYED")
        ELSE IF s.initiator
             THEN [c EXCEPT !.offerTimers = @ + 1, !.roundsOpen = @ + 1,
                            !._isNegotiating = TRUE]
             ELSE [emit(c, "signal:renegotiate") EXCEPT !._isNegotiating = TRUE]

negotiate(s) ==
    LET c == call(s, "negotiate")
    IN  IF s._destroying THEN c
        ELSE IF s.destroyed THEN throw(c, "ERR_DESTROYED")
        ELSE IF s._isNegotiating
             THEN [c EXCEPT !._queuedNegotiation = TRUE]
             ELSE IF s.initiator
                  THEN [c EXCEPT !.offerTimers = @ + 1, !.roundsOpen = @ + 1,
                                 !._isNegotiating = TRUE]
                  ELSE [emit(c, "signal:renegotiate")
                            EXCEPT !._isNegotiating = TRUE]

BatchedNegotiation_KeepFirst(s) ==
    LET s1 == [call(s, "batch") EXCEPT !._batchedNegotiation = FALSE,
                                       !.microtasks = @ - 1,
                                       !.batchRun = TRUE]
    IN  IF s1.initiator \/ ~s1._firstNegotiation THEN negotiate(s1) ELSE s1

BatchedNegotiation_NoDiscard(s) ==
    LET s1 == [call(s, "batch") EXCEPT !._batchedNegotiation = FALSE,
                                       !.microtasks = @ - 1,
                                       !.batchRun = TRUE]
        s2 == negotiate(s1)
    IN  IF s2.thrown # Null THEN s2 ELSE [s2 EXCEPT !._firstNegotiation = FALSE]

\* The callback _needsNegotiation hands to queueMicrotask, logged as "batch".
\* A negotiate() that throws leaves the callback before _firstNegotiation is
\* cleared.
BatchedNegotiation(s) ==
    LET s1 == [call(s, "batch") EXCEPT !._batchedNegotiation = FALSE,
                                       !.microtasks = @ - 1,
                                       !.batchRun = TRUE]
    IN  IF s1.initiator \/ ~s1._firstNegotiation
        THEN LET s2 == negotiate(s1)
             IN  IF s2.thrown # Null THEN s2
                 ELSE [s2 EXCEPT !._firstNegotiation = FALSE]
        ELSE [s1 EXCEPT !._firstNegotiation = FALSE]

_startIceFailureRecoveryTimeout_NoGuard(s) ==
    IF s.destroyed \/ s._destroying THEN s
    ELSE [s EXCEPT !._iceGatheringComplete = FALSE,
                   !._iceGatheringCompleteTimer = FALSE,
                   !.iceCompleteTimer = FALSE,
                   !._iceFailureRecoveryTimer = TRUE,
                   !.recoveryTimer = @ + 1]

_startIceFailureRecoveryTimeout(s) ==
    IF s.destroyed \/ s._destroying THEN s
    ELSE IF s._iceFailureRecoveryTimer THEN s
    ELSE [s EXCEPT !._iceGatheringComplete = FALSE,
                   !._iceGatheringCompleteTimer = FALSE,
                   !.iceCompleteTimer = FALSE,
                   !._iceFailureRecoveryTimer = TRUE,
                   !.recoveryTimer = @ + 1]

restartIce_Always(s) ==
    IF s.destroyed \/ s._destroying THEN return(s, "false")
    ELSE IF ~s.initiator THEN return(s, "false")
    ELSE LET s1 == IF s._iceFailureRecoveryTimer
                   THEN _startIceFailureRecoveryTimeout(
                            [s EXCEPT !._iceFailureRecoveryTimer = FALSE,
                                      !.recoveryTimer = IF @ > 0 THEN @ - 1 ELSE 0])
                   ELSE s
             s2 == [s1 EXCEPT !._iceGatheringComplete = FALSE,
                              !._iceGatheringCompleteTimer = FALSE,
                              !.iceCompleteTimer = FALSE,
                              !._isNegotiating = FALSE,
                              !._isRestartingIce = TRUE,
                              !.restartsSinceStable = @ + 1]
         IN  return(_needsNegotiation(s2), "true")

restartIce(s) ==
    IF s.destroyed \/ s._destroying THEN return(s, "false")
    ELSE IF ~s.initiator THEN return(s, "false")
    ELSE IF s._isRestartingIce THEN return(s, "false")
    ELSE LET s1 == IF s._iceFailureRecoveryTimer
                   THEN _startIceFailureRecoveryTimeout(
                            [s EXCEPT !._iceFailureRecoveryTimer = FALSE,
                                      !.recoveryTimer = IF @ > 0 THEN @ - 1 ELSE 0])
                   ELSE s
             s2 == [s1 EXCEPT !._iceGatheringComplete = FALSE,
                              !._iceGatheringCompleteTimer = FALSE,
                              !.iceCompleteTimer = FALSE,
                              !._isNegotiating = FALSE,
                              !._isRestartingIce = TRUE,
                              !.restartsSinceStable = @ + 1]
         IN  return(_needsNegotiation(s2), "true")

\* _createOffer up to the call of the engine's createOffer.  After a teardown
\* that did not come from the stream, `destroyed` is false and _pc is null.
\* The options are copied before the restart flag is written into
\* this.offerOptions, and the engine is given the copy.
_createOffer(s) ==
    IF s.destroyed THEN s
    ELSE LET offerOptions == s.offerOptions
             s1 == IF s._isRestartingIce
                   THEN [s EXCEPT !.offerOptions.iceRestart = TRUE]
                   ELSE s
         IN  IF ~s._pc THEN throw(s1, "TypeError")
             ELSE call([s1 EXCEPT !.createOfferPending = @ + 1],
                       IF offerOptions.iceRestart THEN "pc.createOffer:iceRestart"
                       ELSE "pc.createOffer")

\* sendOffer, the closure of _createOffer, as onSuccess calls it: reading
\* _pc.localDescription of a null _pc throws, which onError catches.
sendOffer(s) ==
    IF s.destroyed THEN s
    ELSE IF ~s._pc THEN __destroy(s, "ERR_SET_LOCAL_DESCRIPTION")
    ELSE emit(s, "signal:offer")

\* The .then of createOffer: the offer goes to setLocalDescription.  What the
\* callback throws is caught by the .catch of the chain.
CreateOfferThen(s) ==
    IF s.destroyed THEN s
    ELSE IF ~s._pc THEN __destroy(s, "ERR_CREATE_OFFER")
    ELSE [s EXCEPT !.setLocalOfferPending = @ + 1]

SetLocalOfferSuccess_NoWait(s) ==
    IF s.destroyed THEN s ELSE sendOffer(s)

\* onSuccess of setLocalDescription(offer).
SetLocalOfferSuccess(s) ==
    IF s.destroyed THEN s
    ELSE IF s.trickle \/ s._iceGatheringComplete THEN sendOffer(s)
    ELSE [s EXCEPT !.gatherWaiters =
                       Append(@, [send |-> "offer", missing |-> FALSE])]

_onSignalingStateChange_DropQueued(s, signalingState) ==
    IF s.destroyed THEN s
    ELSE LET s1 == IF signalingState = "stable"
                   THEN emit([s EXCEPT !._isNegotiating = FALSE,
                                       !._queuedNegotiation = FALSE,
                                       !._sendersAwaitingStable = <<>>,
                                       !.roundsOpen = 0,
                                       !.restartsSinceStable = 0],
                             "negotiated")
                   ELSE s
         IN  emit(s1, "signalingStateChange")

_onSignalingStateChange_NegotiatedToo(s, signalingState) ==
    IF s.destroyed THEN s
    ELSE LET s1 == IF signalingState = "stable"
                   THEN LET t1 == [s EXCEPT !.called =
                                                @ \o [i \in DOMAIN s._sendersAwaitingStable
                                                         |-> "pc.removeTrack"],
                                            !._isNegotiating = FALSE,
                                            !._queuedNegotiation =
                                                @ \/ s._sendersAwaitingStable # <<>>,
                                            !._sendersAwaitingStable = <<>>,
                                            !.roundsOpen = 0,
                                            !.restartsSinceStable = 0]
                        IN  emit(IF t1._queuedNegotiation
                                 THEN _needsNegotiation(
                                          [t1 EXCEPT !._queuedNegotiation = FALSE])
                                 ELSE t1, "negotiated")
                   ELSE s
         IN  emit(s1, "signalingStateChange")

_onSignalingStateChange(s, signalingState) ==
    IF s.destroyed THEN s
    ELSE LET s1 == IF signalingState = "stable"
                   THEN LET t1 == [s EXCEPT !.called =
                                                @ \o [i \in DOMAIN s._sendersAwaitingStable
                                                         |-> "pc.removeTrack"],
                                            !._isNegotiating = FALSE,
                                            !._queuedNegotiation =
                                                @ \/ s._sendersAwaitingStable # <<>>,
                                            !._sendersAwaitingStable = <<>>,
                                            !.roundsOpen = 0,
                                            !.restartsSinceStable = 0]
                        IN  IF t1._queuedNegotiation
                            THEN _needsNegotiation(
                                     [t1 EXCEPT !._queuedNegotiation = FALSE])
                            ELSE emit(t1, "negotiated")
                   ELSE s
         IN  emit(s1, "signalingStateChange")


\* ----------------------------------------------------------- connectivity

\* send(chunk): nothing is sent while destroying; the channel's send may throw.
send(s, chunk, sendThrows) ==
    IF s._destroying THEN s
    ELSE IF s.destroyed THEN throw(s, "ERR_DESTROYED")
    ELSE IF sendThrows THEN throw(s, "InvalidStateError")
    ELSE emit(s, "send:" \o chunk)

\* The completion callback of the write held by the stream.
callback(s, err) == [emit(s, "cb:" \o err) EXCEPT !.writing = FALSE]

\* destroySoon of _onFinish.
destroySoon(s) == [s EXCEPT !.finishTimers = @ + 1]

\* emit('connect'): the destroySoon listeners _onFinish left with once() run.
emitConnect(s) ==
    [emit(s, "connect") EXCEPT !.connects = @ + 1,
                               !.finishTimers = @ + s.connectListeners,
                               !.connectListeners = 0]

\* Whether the statistics leave the selected candidate pair unresolved, so
\* that findCandidatePair is tried again: a failed query reports no items.
StatsRetry(stats) ==
    LET found == ~stats.err /\ stats.selected
        pairs == ~stats.err /\ stats.pairs
        locals == ~stats.err /\ stats.locals
    IN  ~found /\ (~pairs \/ locals)

\* The flush of the chunk written before connect: the chunk is sent, and the
\* callback held in _cb is called; calling the null left by an earlier
\* _onChannelBufferedAmountLow is a TypeError.
Flush(s, sendThrows) ==
    IF ~Truthy(s._chunk) THEN s
    ELSE LET s1 == send(s, s._chunk, sendThrows)
         IN  IF s1.thrown # Null
             THEN __destroy([s1 EXCEPT !.thrown = Null], "ERR_DATA_CHANNEL")
             ELSE LET s2 == [s1 EXCEPT !._chunk = Null, !.flushes = @ + 1]
                  IN  IF s2._cb THEN callback([s2 EXCEPT !._cb = FALSE], Null)
                      ELSE throw(s2, "TypeError")

Resolved_ConnectAgain(s, sendThrows) ==
    LET s1 == Flush([s EXCEPT !._connecting = FALSE, !._connected = TRUE],
                    sendThrows)
    IN  IF s1._destroying \/ s1.thrown # Null THEN s1
        ELSE emitConnect([s1 EXCEPT !._connectedOnce = TRUE])

\* The part of the getStats callback after resolution, from the flush of the
\* chunk written before connect to the 'connect' or 'reconnect' event.  The
\* callback returns when the flush destroys, and ends when it throws.
Resolved(s, sendThrows) ==
    LET s1 == Flush([s EXCEPT !._connecting = FALSE, !._connected = TRUE],
                    sendThrows)
    IN  IF s1._destroying \/ s1.thrown # Null THEN s1
        ELSE IF ~s1._connectedOnce
        THEN emitConnect([s1 EXCEPT !._connectedOnce = TRUE,
                                    !._interval = ~s1.bufferedAmountLowThreshold])
        ELSE emit(s1, "reconnect")

\* The callback findCandidatePair hands to getStats.
StatsCallback(s, stats, sendThrows) ==
    IF s.destroyed \/ s._destroying THEN s
    ELSE IF StatsRetry(stats) THEN [s EXCEPT !.findPairTimers = @ + 1]
    ELSE Resolved(s, sendThrows)

\* findCandidatePair, the closure of _maybeReady: it queries the statistics.
findCandidatePair(s) ==
    IF s.destroyed \/ s._destroying THEN s
    ELSE [s EXCEPT !.statsPending = @ + 1]

_maybeReady_IgnoreChannel(s) ==
    IF s._connecting \/ ~s._pcReady THEN s
    ELSE findCandidatePair([s EXCEPT !._connecting = TRUE])

_maybeReady(s) ==
    IF s._connecting \/ ~s._pcReady \/ ~s._channelReady THEN s
    ELSE findCandidatePair([s EXCEPT !._connecting = TRUE])

\* _setupData(event) with the channel of the event.
_setupData(s) ==
    [s EXCEPT !._channel = TRUE, !._closingInterval = TRUE,
              !.channelState = "connecting"]

_onChannelOpen(s) ==
    IF s._connected \/ s.destroyed THEN s
    ELSE _maybeReady([s EXCEPT !._channelReady = TRUE])

_onChannelClose(s) == IF s.destroyed THEN s ELSE __destroy(s, "none")

\* addTransceiver(kind, init) (src/index.ts); the engine's addTransceiver may
\* throw.
addTransceiver(s, engineThrows) ==
    IF s._destroying THEN s
    ELSE IF s.destroyed THEN throw(s, "ERR_DESTROYED")
    ELSE IF s.initiator
         THEN IF engineThrows THEN __destroy(s, "ERR_ADD_TRANSCEIVER")
              ELSE _needsNegotiation(call(s, "pc.addTransceiver"))
         ELSE emit(s, "signal:transceiverRequest")

\* _requestMissingTransceivers; `missing` says a transceiver with a track and
\* no mid was not requested yet.
_requestMissingTransceivers(s, missing) ==
    IF s._pc /\ missing THEN addTransceiver(s, FALSE) ELSE s

\* sendOffer or sendAnswer as a listener of '_iceGatheringComplete': nothing
\* catches what it throws when it reads localDescription of a null _pc.  The
\* transceivers sendAnswer finds missing are drawn when it is registered.
SendWaiting(s, waiter) ==
    IF s.destroyed THEN s
    ELSE IF ~s._pc THEN throw(s, "TypeError")
    ELSE IF waiter.send = "offer" THEN emit(s, "signal:offer")
    ELSE LET s1 == emit(s, "signal:answer")
         IN  IF ~s1.initiator
             THEN _requestMissingTransceivers(s1, waiter.missing)
             ELSE s1

\* emit('_iceGatheringComplete'): the once() listeners run in the order they
\* were registered, each removed before it runs, until one throws.
RECURSIVE EmitGatheringComplete(_, _)
EmitGatheringComplete(s, listeners) ==
    IF listeners = <<>> THEN s
    ELSE LET s1 == SendWaiting([s EXCEPT !.gatherWaiters = Tail(@)],
                               Head(listeners))
         IN  IF s1.thrown # Null THEN s1
             ELSE EmitGatheringComplete(s1, Tail(listeners))

\* _onIceGatheringComplete.  The engine's events reach a peer that has its
\* engine; only the callback of the timer can find _pc null.
_onIceGatheringComplete(s) ==
    IF s._iceGatheringComplete THEN s
    ELSE LET s1 == emit([s EXCEPT !._iceGatheringComplete = TRUE],
                        "_iceGatheringComplete")
             s2 == EmitGatheringComplete(s1, s1.gatherWaiters)
         IN  IF s2.thrown # Null THEN s2
             ELSE [s2 EXCEPT !._iceGatheringCompleteTimer = FALSE,
                             !.iceCompleteTimer = FALSE]

\* The callback of the timer _startIceFailureRecoveryTimeout sets.
RecoveryTimeout(s) ==
    IF ~s._pc THEN throw(s, "TypeError")
    ELSE IF s.iceConnectionState \notin {"connected", "completed"}
         THEN __destroy(s, "ERR_ICE_CONNECTION_FAILURE")
         ELSE s

ClearRecoveryTimer_Keep(s) == s

\* clearTimeout of the recovery timer when ICE is connected or completed.
ClearRecoveryTimer(s) ==
    IF ~s._iceFailureRecoveryTimer THEN s
    ELSE [s EXCEPT !._iceFailureRecoveryTimer = FALSE,
                   !.recoveryTimer = IF @ > 0 THEN @ - 1 ELSE 0]

_onIceStateChange_AnyPolicy(s) ==
    IF s.destroyed THEN s
    ELSE LET ice == s.iceConnectionState
             up == ice \in {"connected", "completed"}
             s1 == emit(s, "iceStateChange")
             s2 == IF s.iceGatheringState = "complete"
                   THEN _onIceGatheringComplete(s1) ELSE s1
             s3 == IF up
                   THEN _maybeReady([ClearRecoveryTimer(s2)
                                        EXCEPT !._pcReady = TRUE,
                                               !._isRestartingIce = FALSE])
                   ELSE s2
             enabled == s3.iceRestartEnabled # "false"
             s4 == IF ice = "closed"
                   THEN __destroy(s3, "ERR_ICE_CONNECTION_CLOSED")
                   ELSE IF ice = "failed" /\ ~enabled /\ ~s3._isRestartingIce
                   THEN __destroy(s3, "ERR_ICE_CONNECTION_FAILURE")
                   ELSE IF ice = "failed" /\ (enabled \/ s3._isRestartingIce)
                   THEN _startIceFailureRecoveryTimeout(s3)
                   ELSE s3
         IN  IF /\ ice \in {"failed", "disconnected"} /\ enabled
                /\ s4.initiator /\ ~s4._isRestartingIce
             THEN return(restartIce(s4), Null)
             ELSE s4

\* _onIceStateChange, after the engine changed its ICE connection or gathering
\* state.  The result of the restartIce() it calls is dropped.
_onIceStateChange(s) ==
    IF s.destroyed THEN s
    ELSE LET ice == s.iceConnectionState
             up == ice \in {"connected", "completed"}
             s1 == emit(s, "iceStateChange")
             s2 == IF s.iceGatheringState = "complete"
                   THEN _onIceGatheringComplete(s1) ELSE s1
             s3 == IF up
                   THEN _maybeReady([ClearRecoveryTimer(s2)
                                        EXCEPT !._pcReady = TRUE,
                                               !._isRestartingIce = FALSE])
                   ELSE s2
             enabled == s3.iceRestartEnabled # "false"
             s4 == IF ice = "closed"
                   THEN __destroy(s3, "ERR_ICE_CONNECTION_CLOSED")
                   ELSE IF ice = "failed" /\ ~enabled /\ ~s3._isRestartingIce
                   THEN __destroy(s3, "ERR_ICE_CONNECTION_FAILURE")
                   ELSE IF ice = "failed" /\ (enabled \/ s3._isRestartingIce)
                   THEN _startIceFailureRecoveryTimeout(s3)
                   ELSE s3
         IN  IF /\ \/ ice = "failed" /\ s4.iceRestartEnabled = "onFailure"
                   \/ ice = "disconnected" /\ s4.iceRestartEnabled = "onDisconnect"
                /\ s4.initiator /\ ~s4._isRestartingIce
             THEN return(restartIce(s4), Null)
             ELSE s4

\* _onConnectionStateChange, with the connection state the engine reports.
_onConnectionStateChange(s, connectionState) ==
    IF s.destroyed \/ s._destroying THEN s
    ELSE LET enabled == s.iceRestartEnabled # "false"
             s1 == IF connectionState # "connected"
                   THEN [s EXCEPT !._connected = FALSE] ELSE s
         IN  IF connectionState = "failed" /\ ~(enabled \/ s1._isRestartingIce)
             THEN __destroy(s1, "ERR_CONNECTION_FAILURE")
             ELSE LET s2 == IF connectionState = "failed"
                            THEN _startIceFailureRecoveryTimeout(s1) ELSE s1
                  IN  IF /\ \/ connectionState = "failed"
                               /\ s2.iceRestartEnabled = "onFailure"
                            \/ connectionState = "disconnected"
                               /\ s2.iceRestartEnabled = "onDisconnect"
                         /\ s2.initiator /\ ~s2._isRestartingIce
                      THEN return(restartIce(s2), Null)
                      ELSE s2

\* ------------------------------------------------------------ the stream

\* _write(chunk, cb); `high` says the channel's bufferedAmount is above
\* MAX_BUFFERED_AMOUNT after the send.
_write(s, chunk, high, sendThrows) ==
    LET w == [s EXCEPT !.writing = TRUE]
    IN  IF w.destroyed THEN callback(w, "ERR_DATA_CHANNEL")
        ELSE IF w._connected
        THEN LET s1 == send(w, chunk, sendThrows)
             IN  IF s1.thrown # Null
                 THEN __destroy([s1 EXCEPT !.thrown = Null], "ERR_DATA_CHANNEL")
                 ELSE IF high THEN [s1 EXCEPT !._cb = TRUE]
                 ELSE callback(s1, Null)
        ELSE [w EXCEPT !._chunk = chunk, !._cb = TRUE]

_onChannelBufferedAmountLow(s) ==
    IF s.destroyed \/ ~s._cb THEN s
    ELSE callback([s EXCEPT !._cb = FALSE], Null)

_onInterval_AnyAmount(s, high) ==
    IF ~s._cb \/ ~s._channel THEN s ELSE _onChannelBufferedAmountLow(s)

\* _onInterval, the callback of the polling interval; `high` says the
\* channel's bufferedAmount is above MAX_BUFFERED_AMOUNT.
_onInterval(s, high) ==
    IF ~s._cb \/ ~s._channel \/ high THEN s
    ELSE _onChannelBufferedAmountLow(s)

_onFinish_NoDestroy(s) == s

_onFinish(s) ==
    IF s.destroyed THEN s
    ELSE IF s._connected THEN destroySoon(s)
    ELSE [s EXCEPT !.connectListeners = @ + 1]

\* _final(cb), and the 'finish' event that follows its callback; the listener
\* _onFinishBound was added with once().
_final(s) ==
    LET s1 == emit([s EXCEPT !.readableEnded = TRUE, !.finished = TRUE], "finish")
    IN  IF s1._onFinishBound
        THEN _onFinish([s1 EXCEPT !._onFinishBound = FALSE])
        ELSE s1


\* ------------------------------------------------------- media senders
\* addTrack and removeTrack of the class that extends the Peer (src/index.ts).

\* The submap of a track, and the sender a (track, stream) pair maps to.
Submap(s, track) == s._senderMap[track]

Sender(s, track, stream) ==
    IF Submap(s, track) = Null THEN Null ELSE s.submaps[Submap(s, track)][stream]

\* Identities free for a new Map() and for the sender the engine creates.
FreeSubmaps(s) == {m \in SubmapIds : \A t \in Tracks : s._senderMap[t] # m}

FreeSenders(s) == {x \in SenderIds : s.senders[x] = Null}

NewSubmap(s) == CHOOSE m \in FreeSubmaps(s) : TRUE

NewSender(s) == CHOOSE x \in FreeSenders(s) : TRUE

addTrack_NoCheck(s, track, stream, engineThrows) ==
    IF s._destroying THEN s
    ELSE LET fresh == Submap(s, track) = Null
             m == IF fresh THEN NewSubmap(s) ELSE Submap(s, track)
             old == IF fresh THEN [st \in Streams |-> Null] ELSE s.submaps[m]
             s1 == [call(s, "pc.addTrack")
                       EXCEPT !.senders[NewSender(s)] = "live",
                              !.submaps[m] = [old EXCEPT ![stream] = NewSender(s)],
                              !._senderMap[track] = m]
         IN  _needsNegotiation(s1)

\* addTrack(track, stream); the engine's addTrack may throw.
addTrack(s, track, stream, engineThrows) ==
    IF s._destroying THEN s
    ELSE IF s.destroyed THEN throw(s, "ERR_DESTROYED")
    ELSE IF Sender(s, track, stream) = Null
    THEN IF engineThrows THEN throw(call(s, "pc.addTrack"), "InvalidAccessError")
         ELSE LET fresh == Submap(s, track) = Null
                  m == IF fresh THEN NewSubmap(s) ELSE Submap(s, track)
                  old == IF fresh THEN [st \in Streams |-> Null] ELSE s.submaps[m]
                  s1 == [call(s, "pc.addTrack")
                            EXCEPT !.senders[NewSender(s)] = "live",
                                   !.submaps[m] =
                                       [old EXCEPT ![stream] = NewSender(s)],
                                   !._senderMap[track] = m]
              IN  _needsNegotiation(s1)
    ELSE IF s.senders[Sender(s, track, stream)] = "removed"
    THEN throw(s, "ERR_SENDER_REMOVED")
    ELSE throw(s, "ERR_SENDER_ALREADY_ADDED")

removeTrack_NoQueue(s, track, stream, outcome) ==
    IF s._destroying THEN s
    ELSE IF s.destroyed THEN throw(s, "ERR_DESTROYED")
    ELSE IF Sender(s, track, stream) = Null THEN throw(s, "ERR_TRACK_NOT_ADDED")
    ELSE LET x == Sender(s, track, stream)
             s1 == call([s EXCEPT !.senders[x] = "removed"], "pc.removeTrack")
             s2 == IF outcome \in {"ok", "NS_ERROR_UNEXPECTED"} THEN s1
                   ELSE __destroy(s1, "ERR_REMOVE_TRACK")
         IN  _needsNegotiation(s2)

\* removeTrack(track, stream); `outcome` is what the engine's removeTrack does:
\* "ok", or the name of the error it throws.
removeTrack(s, track, stream, outcome) ==
    IF s._destroying THEN s
    ELSE IF s.destroyed THEN throw(s, "ERR_DESTROYED")
    ELSE IF Sender(s, track, stream) = Null THEN throw(s, "ERR_TRACK_NOT_ADDED")
    ELSE LET x == Sender(s, track, stream)
             s1 == call([s EXCEPT !.senders[x] = "removed"], "pc.removeTrack")
             s2 == IF outcome = "ok" THEN s1
                   ELSE IF outcome = "NS_ERROR_UNEXPECTED"
                   THEN [s1 EXCEPT !._sendersAwaitingStable = Append(@, x)]
                   ELSE __destroy(s1, "ERR_REMOVE_TRACK")
         IN  _needsNegotiation(s2)

RemoveOutcomes == {"ok", "NS_ERROR_UNEXPECTED", "InvalidStateError"}

\* The forEach of addStream: what addTrack throws ends the loop.
RECURSIVE AddEach(_, _, _, _)
AddEach(s, tracks, stream, engineThrows) ==
    IF tracks = <<>> THEN s
    ELSE LET r == addTrack(s, Head(tracks), stream, engineThrows)
         IN  IF r.thrown # Null THEN r
             ELSE AddEach(r, Tail(tracks), stream, engineThrows)

\* addStream(stream); `tracks` is what stream.getTracks() returns.
addStream(s, tracks, stream, engineThrows) ==
    IF s._destroying THEN s
    ELSE IF s.destroyed THEN throw(s, "ERR_DESTROYED")
    ELSE AddEach(s, tracks, stream, engineThrows)

\* The forEach of removeStream.
RECURSIVE RemoveEach(_, _, _, _)
RemoveEach(s, tracks, stream, outcome) ==
    IF tracks = <<>> THEN s
    ELSE LET r == removeTrack(s, Head(tracks), stream, outcome)
         IN  IF r.thrown # Null THEN r
             ELSE RemoveEach(r, Tail(tracks), stream, outcome)

\* removeStream(stream).
removeStream(s, tracks, stream, outcome) ==
    IF s._destroying THEN s
    ELSE IF s.destroyed THEN throw(s, "ERR_DESTROYED")
    ELSE RemoveEach(s, tracks, stream, outcome)

\* replaceTrack(oldTrack, newTrack, stream); newTrack may be null, and
\* `supported` says the sender has a replaceTrack method.
replaceTrack(s, oldTrack, newTrack, stream, supported) ==
    IF s._destroying THEN s
    ELSE IF s.destroyed THEN throw(s, "ERR_DESTROYED")
    ELSE IF Sender(s, oldTrack, stream) = Null THEN throw(s, "ERR_TRACK_NOT_ADDED")
    ELSE LET s1 == IF newTrack = Null THEN s
                   ELSE [s EXCEPT !._senderMap[newTrack] = Submap(s, oldTrack)]
         IN  IF supported THEN call(s1, "sender.replaceTrack")
             ELSE __destroy(s1, "ERR_UNSUPPORTED_REPLACETRACK")

\* ---------------------------------------------------------------- signal

\* _addIceCandidate up to the call of the engine's addIceCandidate.
_addIceCandidate(s, candidate) ==
    [call(s, "pc.addIceCandidate") EXCEPT !.addCandidatePending =
                                              Append(@, candidate)]

\* The shapes of a signaling message: any of sdp (with its type), candidate,
\* renegotiate and transceiverRequest may be present.
\* No member is Null: `candidate` of a message is a candidate, or Null when
\* the message has none.
IceCandidates == {"c1", "c2", "c3"}

Message(sdp, candidate, renegotiate, transceiverRequest) ==
    [sdp |-> sdp, candidate |-> candidate, renegotiate |-> renegotiate,
     transceiverRequest |-> transceiverRequest]

Renegotiate == Message(Null, Null, TRUE, FALSE)

\* The messages a caller may hand to signal().
Messages ==
    [sdp : {Null, "offer", "answer"}, candidate : {Null, "c1"},
     renegotiate : BOOLEAN, transceiverRequest : BOOLEAN]

\* A message with none of the four fields: the empty object.
Empty == Message(Null, Null, FALSE, FALSE)

\* What signal() is handed: an object, or a string that is or is not the JSON
\* text of an object.
Inputs ==
    [string : {FALSE}, parses : {TRUE}, object : Messages]
        \cup [string : {TRUE}, parses : BOOLEAN,
              object : {Empty, Message("offer", Null, FALSE, FALSE),
                        Message(Null, "c1", TRUE, TRUE)}]

\* The head of signal(): a string is parsed, and is {} if it does not parse.
Parse(input) ==
    IF input.string /\ ~input.parses THEN Empty ELSE input.object

signal_AnyShape(s, data, engineThrows) ==
    IF s._destroying THEN s
    ELSE IF s.destroyed THEN throw(s, "ERR_DESTROYED")
    ELSE LET s1 == IF data.renegotiate /\ s.initiator
                   THEN _needsNegotiation(s) ELSE s
             s2 == IF data.transceiverRequest /\ s1.initiator
                   THEN addTransceiver(s1, engineThrows) ELSE s1
             s3 == IF data.candidate = Null THEN s2
                   ELSE IF s2.remoteDescription # Null
                        THEN _addIceCandidate(s2, data.candidate)
                        ELSE [s2 EXCEPT !._pendingCandidates =
                                            Append(@, data.candidate)]
         IN  IF data.sdp = Null THEN s3
             ELSE [s3 EXCEPT !.setRemotePending = Append(@, data.sdp)]

\* signal(data) up to the call of the engine's setRemoteDescription.
signal(s, data, engineThrows) ==
    IF s._destroying THEN s
    ELSE IF s.destroyed THEN throw(s, "ERR_DESTROYED")
    ELSE LET s1 == IF data.renegotiate /\ s.initiator
                   THEN _needsNegotiation(s) ELSE s
             s2 == IF data.transceiverRequest /\ s1.initiator
                   THEN addTransceiver(s1, engineThrows) ELSE s1
             s3 == IF data.candidate = Null THEN s2
                   ELSE IF s2.remoteDescription # Null
                        THEN _addIceCandidate(s2, data.candidate)
                        ELSE [s2 EXCEPT !._pendingCandidates =
                                            Append(@, data.candidate)]
             s4 == IF data.sdp = Null THEN s3
                   ELSE [s3 EXCEPT !.setRemotePending = Append(@, data.sdp)]
         IN  IF data.sdp = Null /\ data.candidate = Null /\ ~data.renegotiate
                /\ ~data.transceiverRequest
             THEN __destroy(s4, "ERR_SIGNALING")
             ELSE s4

\* _createAnswer up to the call of the engine's createAnswer.
_createAnswer(s) ==
    IF s.destroyed THEN s
    ELSE IF ~s._pc THEN throw(s, "TypeError")
    ELSE [s EXCEPT !.createAnswerPending = @ + 1]

RECURSIVE ReplayEach_LastFirst(_, _)
ReplayEach_LastFirst(s, candidates) ==
    IF candidates = <<>> THEN s
    ELSE _addIceCandidate(ReplayEach_LastFirst(s, Tail(candidates)),
                          Head(candidates))

\* The forEach over _pendingCandidates.
RECURSIVE ReplayEach(_, _)
ReplayEach(s, candidates) ==
    IF candidates = <<>> THEN s
    ELSE ReplayEach(_addIceCandidate(s, Head(candidates)), Tail(candidates))

\* The .then of setRemoteDescription: the candidates that waited for the
\* remote description are added, and an offer is answered.  What the callback
\* throws is caught by the .catch of the chain.
SetRemoteThen(s) ==
    IF s.destroyed THEN s
    ELSE IF ~s._pc THEN __destroy(s, "ERR_SET_REMOTE_DESCRIPTION")
    ELSE LET s1 == [ReplayEach(s, s._pendingCandidates)
                        EXCEPT !._pendingCandidates = <<>>]
         IN  IF s1.remoteDescription = "offer" THEN _createAnswer(s1) ELSE s1

\* The .then of createAnswer: the answer goes to setLocalDescription.
CreateAnswerThen(s) ==
    IF s.destroyed THEN s
    ELSE IF ~s._pc THEN __destroy(s, "ERR_CREATE_ANSWER")
    ELSE [s EXCEPT !.setLocalAnswerPending = @ + 1]

\* sendAnswer, the closure of _createAnswer, as onSuccess calls it.
sendAnswer(s, missing) ==
    IF s.destroyed THEN s
    ELSE IF ~s._pc THEN __destroy(s, "ERR_SET_LOCAL_DESCRIPTION")
    ELSE LET s1 == emit(s, "signal:answer")
         IN  IF ~s1.initiator THEN _requestMissingTransceivers(s1, missing)
             ELSE s1

\* onSuccess of setLocalDescription(answer).
SetLocalAnswerSuccess(s, missing) ==
    IF s.destroyed THEN s
    ELSE IF s.trickle \/ s._iceGatheringComplete THEN sendAnswer(s, missing)
    ELSE [s EXCEPT !.gatherWaiters =
                       Append(@, [send |-> "answer", missing |-> missing])]

\* The callback of the timer _startIceCompleteTimeout sets.
IceCompleteTimeout(s) ==
    IF s._iceGatheringComplete THEN s
    ELSE _onIceGatheringComplete(emit(s, "iceTimeout"))

_startIceCompleteTimeout(s) ==
    IF s.destroyed THEN s
    ELSE IF s._iceGatheringCompleteTimer THEN s
    ELSE [s EXCEPT !._iceGatheringCompleteTimer = TRUE, !.iceCompleteTimer = TRUE]

\* _onIceCandidate(event); `candidate` says the event carries a candidate.
_onIceCandidate(s, candidate) ==
    IF s.destroyed THEN s
    ELSE LET s1 == IF candidate /\ s.trickle THEN emit(s, "signal:candidate")
                   ELSE IF ~candidate /\ ~s._iceGatheringComplete
                   THEN _onIceGatheringComplete(s)
                   ELSE s
         IN  IF candidate THEN _startIceCompleteTimeout(s1) ELSE s1

\* _onChannelMessage(event): the data is pushed to the readable side, which
\* emits it as a 'data' event until it has ended.
_onChannelMessage(s, data) ==
    IF s.destroyed \/ s.readableEnded THEN s
    ELSE [emit(s, "data:" \o data) EXCEPT !.received = Append(@, data)]

Up(s) == s.iceConnectionState \in {"connected", "completed"}

\* ------------------------------------------------------------ one peer
\* One Peer against an engine, a channel and a caller that may do anything
\* the interfaces allow, in any order.

MaxRestarts == 1

\* Writes the caller makes in one run.
MaxWrites == 2

Pending(s) ==
    s.microtasks + s.offerTimers + s.createOfferPending + s.setLocalOfferPending

\* Senders waiting for signaling state "stable" at once.
MaxAwaiting == 1

\* _needsNegotiation() calls folded into one batch.
MaxRequests == 3

InBounds(s) ==
    /\ Pending(s) <= MaxPending
    /\ s.restartsSinceStable <= MaxRestarts
    /\ Len(s._sendersAwaitingStable) <= MaxAwaiting
    /\ s.requests <= MaxRequests

\* A step of the Peer to the state s.
Step(s) ==
    \E t \in {s} : InBounds(t) /\ peer' = t /\ UNCHANGED <<peer2, wire>>

\* Timers and events wait for the microtasks queued before them.
Idle == peer.microtasks = 0

Init ==
    /\ \E initiator \in BOOLEAN, iceRestartEnabled \in IceRestartPolicies :
           peer = Peer(initiator, iceRestartEnabled)
    /\ peer2 = Null /\ wire = Null

Microtask == peer.microtasks > 0 /\ Step(BatchedNegotiation(Begin(peer)))

CallNegotiate == Step(negotiate(Begin(peer)))

CallRestartIce == Step(restartIce(Begin(peer)))

CallSignal ==
    \E data \in {Renegotiate} : Step(signal(Begin(peer), data, FALSE))

\* addTrack and removeTrack of one track of one stream.
CallAddTrack ==
    /\ FreeSubmaps(peer) # {} /\ FreeSenders(peer) # {}
    /\ \E engineThrows \in BOOLEAN :
           Step(addTrack(Begin(peer), "t1", "s1", engineThrows))

CallRemoveTrack ==
    \E outcome \in RemoveOutcomes :
        Step(removeTrack(Begin(peer), "t1", "s1", outcome))

\* destroy() of the stream, which calls _destroy with its own callback.
CallDestroy ==
    /\ peer.destroyCb # "stream" /\ ~peer.destroyed
    /\ Step(_destroy(Begin(peer), "stream", "none"))

DestroyTimer ==
    /\ Idle /\ peer.destroyTimer # Null
    /\ Step(DestroyTimeout(Begin(peer)))

OfferTimer ==
    /\ Idle /\ peer.offerTimers > 0
    /\ Step(_createOffer([Begin(peer) EXCEPT !.offerTimers = @ - 1]))

CreateOfferResolves ==
    /\ Idle /\ peer.createOfferPending > 0
    /\ Step(CreateOfferThen([Begin(peer) EXCEPT !.createOfferPending = @ - 1]))

CreateOfferRejects ==
    /\ Idle /\ peer.createOfferPending > 0
    /\ Step(__destroy([Begin(peer) EXCEPT !.createOfferPending = @ - 1],
                      "ERR_CREATE_OFFER"))

SetLocalOfferResolves ==
    /\ Idle /\ peer.setLocalOfferPending > 0
    /\ Step(SetLocalOfferSuccess(
                [Begin(peer) EXCEPT !.setLocalOfferPending = @ - 1]))

SetLocalOfferRejects ==
    /\ Idle /\ peer.setLocalOfferPending > 0
    /\ Step(__destroy([Begin(peer) EXCEPT !.setLocalOfferPending = @ - 1],
                      "ERR_SET_LOCAL_DESCRIPTION"))

SignalingStateChange ==
    /\ Idle /\ peer._pc
    /\ \E st \in SignalingStates :
           Step(_onSignalingStateChange(
                    call(Begin(peer), "pc.signalingState:" \o st), st))

\* An ICE connection state change of the engine and its event.
IceStateChange ==
    /\ Idle /\ peer._pc
    /\ \E st \in IceConnectionStates \ {peer.iceConnectionState} :
           Step(_onIceStateChange(
                    [Begin(peer) EXCEPT !.iceConnectionState = st,
                                        !.iceConnected =
                                            @ \/ st \in {"connected", "completed"},
                                        !.recovered =
                                            \/ @
                                            \/ /\ st \in {"connected", "completed"}
                                               /\ peer.iceConnectionState = "failed"
                                               /\ peer.recoveryTimer > 0]))

ConnectionStateChange ==
    /\ Idle /\ peer._pc
    /\ \E st \in ConnectionStates :
           Step(_onConnectionStateChange(Begin(peer), st))

\* The channel opens: the event of the initiator's own channel, or of the one
\* the responder was handed and set up.
ChannelOpen ==
    /\ Idle /\ peer._channel /\ peer.channelState = "connecting"
    /\ Step(_onChannelOpen([Begin(peer) EXCEPT !.channelState = "open",
                                               !.channelOpened = TRUE]))

\* The engine hands the responder the channel its peer created.
DataChannel ==
    /\ Idle /\ peer._pc /\ ~peer.initiator /\ peer.channelState = Null
    /\ Step(_setupData(Begin(peer)))

ChannelClose ==
    /\ Idle /\ peer._channel /\ peer.channelState \in {"connecting", "open"}
    /\ Step(_onChannelClose([Begin(peer) EXCEPT !.channelState = "closed"]))

StatsResult ==
    /\ Idle /\ peer.statsPending > 0
    /\ \E stats \in Stats, sendThrows \in BOOLEAN :
           Step(StatsCallback([Begin(peer) EXCEPT !.statsPending = @ - 1],
                              stats, sendThrows))

FindPairTimer ==
    /\ Idle /\ peer.findPairTimers > 0
    /\ Step(findCandidatePair([Begin(peer) EXCEPT !.findPairTimers = @ - 1]))

RecoveryTimer ==
    /\ Idle /\ peer.recoveryTimer > 0
    /\ Step(RecoveryTimeout([Begin(peer) EXCEPT !.recoveryTimer = @ - 1]))

\* The stream hands one write at a time to _write, and none once it is ending
\* or was destroyed by destroy().
Write ==
    /\ ~peer.writing /\ ~peer.ended /\ ~peer.destroyed
    /\ peer.destroyCb # "stream" /\ peer.writes < MaxWrites
    /\ \E chunk \in Chunks, high \in BOOLEAN, sendThrows \in BOOLEAN :
           Step(_write([Begin(peer) EXCEPT !.writes = @ + 1],
                       chunk, high, sendThrows))

BufferedAmountLow ==
    /\ Idle /\ peer._channel /\ peer.channelState = "open"
    /\ Step(_onChannelBufferedAmountLow(Begin(peer)))

CallEnd == ~peer.ended /\ Step(end(Begin(peer)))

\* The stream finishes once it is ending and no write awaits its callback.
Final ==
    /\ Idle /\ peer.ended /\ ~peer.finished /\ ~peer.writing /\ ~peer.destroyed
    /\ Step(_final(Begin(peer)))

FinishTimer ==
    /\ Idle /\ peer.finishTimers > 0
    /\ Step(__destroy([Begin(peer) EXCEPT !.finishTimers = @ - 1], "none"))

\* ------------------------------------------------------------ signaling
\* The caller hands signal() any input, and the engine sets the remote
\* descriptions it is given or rejects them.

\* Engine calls of signal() (setRemoteDescription, addIceCandidate and the
\* createAnswer that follows an offer) and candidates held back, in one run.
MaxSignals == 2

Signals(s) ==
    Len(s.setRemotePending) + Len(s._pendingCandidates)
        + Len(s.addCandidatePending)
        + s.createAnswerPending

SSignal ==
    \E input \in Inputs, engineThrows \in BOOLEAN :
        LET s == signal(Begin(peer), Parse(input), engineThrows)
        IN  Signals(s) <= MaxSignals /\ Step(s)

\* setRemoteDescription resolves: the engine holds the description and says
\* so in its signaling state.
SetRemoteResolves ==
    /\ Idle /\ peer.setRemotePending # <<>> /\ peer._pc
    /\ LET type == Head(peer.setRemotePending)
       IN  Step(SetRemoteThen(_onSignalingStateChange(
                    [Begin(peer) EXCEPT !.setRemotePending = Tail(@),
                                        !.remoteDescription = type],
                    IF type = "offer" THEN "have-remote-offer" ELSE "stable")))

SetRemoteRejects ==
    /\ Idle /\ peer.setRemotePending # <<>>
    /\ Step(__destroy([Begin(peer) EXCEPT !.setRemotePending = Tail(@)],
                      "ERR_SET_REMOTE_DESCRIPTION"))

SignalNext ==
    \/ SSignal
    \/ Microtask
    \/ SetRemoteResolves
    \/ SetRemoteRejects
    \/ CallDestroy
    \/ DestroyTimer

SignalInit ==
    /\ \E initiator \in BOOLEAN : peer = Peer(initiator, "false")
    /\ peer2 = Null /\ wire = Null

SignalSpec == SignalInit /\ [][SignalNext]_vars

\* ------------------------------------------------------------ backpressure
\* One peer and the buffer of its channel: bufferedAmountHigh says the
\* channel's bufferedAmount is above the mark.  A channel with a
\* bufferedAmountLowThreshold reports the drop with an event; the peer polls
\* the other kind every 150 ms.

BackInit ==
    /\ \E initiator \in BOOLEAN, threshold \in BOOLEAN :
           peer = [Peer(initiator, "false")
                       EXCEPT !.bufferedAmountLowThreshold = threshold]
    /\ peer2 = Null /\ wire = Null

\* The stream calls _write; what the channel was given may fill its buffer.
BWrite ==
    /\ ~peer.writing /\ ~peer.ended /\ ~peer.destroyed
    /\ peer.destroyCb # "stream" /\ peer.writes < MaxWrites
    /\ \E chunk \in Chunks, high \in BOOLEAN, sendThrows \in BOOLEAN :
           LET s == _write([Begin(peer) EXCEPT !.writes = @ + 1],
                           chunk, high, sendThrows)
           IN  Step([s EXCEPT !.bufferedAmountHigh =
                                  IF Emitted(s, "send:" \o chunk) THEN high ELSE @])

\* The channel has sent enough: its bufferedAmount is at the mark or below,
\* and the channel that has the event fires 'bufferedamountlow'.
BDrain ==
    /\ Idle /\ peer._channel /\ peer.channelState = "open"
    /\ peer.bufferedAmountHigh
    /\ LET s == [Begin(peer) EXCEPT !.bufferedAmountHigh = FALSE]
       IN  Step(IF s.bufferedAmountLowThreshold
                THEN _onChannelBufferedAmountLow(s) ELSE s)

\* A tick of the polling interval.
BInterval ==
    /\ Idle /\ peer._interval
    /\ Step(_onInterval(Begin(peer), peer.bufferedAmountHigh))

BackNext ==
    \/ Microtask
    \/ CallDestroy
    \/ DestroyTimer
    \/ IceStateChange
    \/ ChannelOpen
    \/ DataChannel
    \/ ChannelClose
    \/ StatsResult
    \/ FindPairTimer
    \/ BWrite
    \/ BDrain
    \/ BInterval

BackSpec == BackInit /\ [][BackNext]_vars

\* ------------------------------------------------------ remote candidates
\* One peer whose caller hands signal() descriptions and candidates, each
\* candidate once, in any order; `wire` is the sequence of the candidates
\* handed over so far.

\* Remote descriptions the engine was given and has not answered, in one run.
MaxDescriptions == 2

Described(s) == Len(s.setRemotePending) + s.createAnswerPending <= MaxDescriptions

CSignalCandidate ==
    \E c \in IceCandidates, sdp \in {Null, "offer", "answer"} :
        /\ \A k \in DOMAIN wire : wire[k] # c
        /\ LET s == signal(Begin(peer), Message(sdp, c, FALSE, FALSE), FALSE)
           IN  /\ InBounds(s) /\ Described(s)
               /\ peer' = s
               /\ wire' = Append(wire, c)
               /\ UNCHANGED peer2

CSignalDescription ==
    \E sdp \in {"offer", "answer"} :
        LET s == signal(Begin(peer), Message(sdp, Null, FALSE, FALSE), FALSE)
        IN  Described(s) /\ Step(s)

CandNext ==
    \/ CSignalCandidate
    \/ CSignalDescription
    \/ Microtask
    \/ SetRemoteResolves
    \/ SetRemoteRejects
    \/ CallDestroy
    \/ DestroyTimer

CandInit ==
    /\ \E initiator \in BOOLEAN : peer = Peer(initiator, "false")
    /\ peer2 = Null /\ wire = <<>>

CandSpec == CandInit /\ [][CandNext]_vars

\* ------------------------------------------------------------ gathering
\* One Peer, with or without trickle, whose engine gathers candidates while
\* the peer negotiates, answers and restarts ICE.

GatherInit ==
    /\ \E initiator \in BOOLEAN, trickle \in BOOLEAN :
           peer = [Peer(initiator, "onFailure") EXCEPT !.trickle = trickle]
    /\ peer2 = Null /\ wire = Null

\* Offers of the other side on their way to an answer or answered and waiting
\* for the end of gathering, at once.
MaxAnswers == 2

\* The caller hands the responder the offer of the initiator.
GSignalOffer ==
    /\ ~peer.initiator
    /\ LET s == signal(Begin(peer), Message("offer", Null, FALSE, FALSE), FALSE)
       IN  /\ Signals(s) + s.setLocalAnswerPending + Len(s.gatherWaiters)
                  <= MaxAnswers
           /\ Step(s)

GCreateAnswerResolves ==
    /\ Idle /\ peer.createAnswerPending > 0
    /\ Step(CreateAnswerThen(
                [Begin(peer) EXCEPT !.createAnswerPending = @ - 1]))

GSetLocalAnswerResolves ==
    /\ Idle /\ peer.setLocalAnswerPending > 0
    /\ Step(SetLocalAnswerSuccess(
                [call(Begin(peer), "setLocalDescription.then")
                    EXCEPT !.setLocalAnswerPending = @ - 1], FALSE))

GSetLocalOfferResolves ==
    /\ Idle /\ peer.setLocalOfferPending > 0
    /\ Step(SetLocalOfferSuccess(
                [call(Begin(peer), "setLocalDescription.then")
                    EXCEPT !.setLocalOfferPending = @ - 1]))

\* The 'icecandidate' event of the engine, with a candidate or with null.
GCandidate ==
    /\ Idle /\ peer._pc
    /\ \E candidate \in BOOLEAN :
           Step(_onIceCandidate(
                    call(Begin(peer),
                         IF candidate THEN "pc.onicecandidate"
                         ELSE "pc.onicecandidate:null"),
                    candidate))

\* The 'icegatheringstatechange' event of the engine, which has the handler
\* of the ICE connection state.
GGatheringState ==
    /\ Idle /\ peer._pc
    /\ \E st \in {"gathering", "complete"} \ {peer.iceGatheringState} :
           Step(_onIceStateChange(
                    [call(Begin(peer), "pc.iceGatheringState:" \o st)
                        EXCEPT !.iceGatheringState = st]))

GIceCompleteTimer ==
    /\ Idle /\ peer.iceCompleteTimer
    /\ Step(IceCompleteTimeout(
                [call(Begin(peer), "iceCompleteTimeout")
                    EXCEPT !.iceCompleteTimer = FALSE]))

\* The ICE connection fails and recovers.
GIceState ==
    /\ Idle /\ peer._pc
    /\ \E st \in {"failed", "connected"} \ {peer.iceConnectionState} :
           Step(_onIceStateChange(
                    [Begin(peer) EXCEPT !.iceConnectionState = st]))

GatherNext ==
    \/ Microtask
    \/ CallRestartIce
    \/ OfferTimer
    \/ CreateOfferResolves
    \/ GSetLocalOfferResolves
    \/ GSignalOffer
    \/ SetRemoteResolves
    \/ GCreateAnswerResolves
    \/ GSetLocalAnswerResolves
    \/ GCandidate
    \/ GGatheringState
    \/ GIceCompleteTimer
    \/ GIceState
    \/ CallDestroy
    \/ DestroyTimer

GatherSpec == GatherInit /\ [][GatherNext]_vars

\* ------------------------------------------------------------ media
\* The caller adds and removes any track of any stream; the history of the
\* engine's addTrack is kept.  The offers that the media calls schedule stay
\* pending here (their course is the subject of Spec), and the peer is
\* destroyed by a removeTrack that fails.

\* Calls of the engine's addTrack that throw in one run.
MaxEngineThrows == 1

\* addTrack(track, stream) with its history.
MAdd(s, track, stream, engineThrows) ==
    LET r == addTrack(Begin(s), track, stream, engineThrows)
        n == Calls(r, "pc.addTrack")
    IN  [r EXCEPT !.engineAdds[track][stream] = @ + n,
                  !.sendersMade[track][stream] =
                      @ + (IF r.thrown = Null THEN n ELSE 0),
                  !.engineThrown = @ + (IF r.thrown = Null THEN 0 ELSE n)]

\* The engine has a sender to give, and the bound on its throws is kept.
MAddAllowed(s, track, stream, engineThrows) ==
    /\ engineThrows => s.engineThrown < MaxEngineThrows
    /\ Sender(s, track, stream) = Null => FreeSenders(s) # {}

MAddTrack ==
    \E track \in Tracks, stream \in Streams, engineThrows \in BOOLEAN :
        /\ MAddAllowed(peer, track, stream, engineThrows)
        /\ Step(MAdd(peer, track, stream, engineThrows))

MRemoveTrack ==
    \E track \in Tracks, stream \in Streams, outcome \in RemoveOutcomes :
        Step(removeTrack(Begin(peer), track, stream, outcome))

MediaNext ==
    \/ MAddTrack
    \/ MRemoveTrack
    \/ Microtask
    \/ SignalingStateChange
    \/ DestroyTimer

\* The restart policy is the default one: it plays no part in the media calls.
MediaInit ==
    /\ \E initiator \in BOOLEAN : peer = Peer(initiator, "onFailure")
    /\ peer2 = Null /\ wire = Null

MediaSpec == MediaInit /\ [][MediaNext]_vars

\* ------------------------------------------------------- public operations
\* The caller uses every public operation of the peer, before and after it
\* destroys the peer.  Each step notes the operation it called.

PublicOperations ==
    {"signal", "send", "negotiate", "addTransceiver", "addStream", "addTrack",
     "replaceTrack", "removeTrack", "removeStream"}

\* What stream.getTracks() returns.
TrackLists == {<<>>, <<"t1">>, <<"t1", "t2">>}

\* Operations the caller uses on the live peer in one run.
MaxOperations == 2

\* The peer as the caller enters the operation op.
Enter(op) == call(Begin(peer), op)

\* The operation leaves the peer in state s.
Leave(s) ==
    /\ Live(peer) => peer.operations < MaxOperations
    /\ Step(IF Live(peer) THEN [s EXCEPT !.operations = @ + 1] ELSE s)

\* The engine has senders left for the tracks.
SendersFor(tracks) == Live(peer) => Cardinality(FreeSenders(peer)) >= Len(tracks)

ASignal ==
    \E input \in Inputs, engineThrows \in BOOLEAN :
        LET s == signal(Enter("signal"), Parse(input), engineThrows)
        IN  Signals(s) <= MaxSignals /\ Leave(s)

ASend ==
    /\ Live(peer) => peer._channel
    /\ \E chunk \in Chunks, sendThrows \in BOOLEAN :
           Leave(send(Enter("send"), chunk, sendThrows))

ANegotiate == Leave(negotiate(Enter("negotiate")))

AAddTransceiver ==
    \E engineThrows \in BOOLEAN :
        Leave(addTransceiver(Enter("addTransceiver"), engineThrows))

AAddStream ==
    \E tracks \in TrackLists, stream \in Streams, engineThrows \in BOOLEAN :
        /\ SendersFor(tracks)
        /\ Leave(addStream(Enter("addStream"), tracks, stream, engineThrows))

AAddTrack ==
    \E track \in Tracks, stream \in Streams, engineThrows \in BOOLEAN :
        /\ SendersFor(<<track>>)
        /\ Leave(addTrack(Enter("addTrack"), track, stream, engineThrows))

AReplaceTrack ==
    \E oldTrack \in Tracks, newTrack \in Tracks \cup {Null}, stream \in Streams,
       supported \in BOOLEAN :
        Leave(replaceTrack(Enter("replaceTrack"), oldTrack, newTrack, stream,
                          supported))

ARemoveTrack ==
    \E track \in Tracks, stream \in Streams, outcome \in RemoveOutcomes :
        Leave(removeTrack(Enter("removeTrack"), track, stream, outcome))

ARemoveStream ==
    \E tracks \in TrackLists, stream \in Streams, outcome \in RemoveOutcomes :
        Leave(removeStream(Enter("removeStream"), tracks, stream, outcome))

ApiNext ==
    \/ ASignal
    \/ ASend
    \/ ANegotiate
    \/ AAddTransceiver
    \/ AAddStream
    \/ AAddTrack
    \/ AReplaceTrack
    \/ ARemoveTrack
    \/ ARemoveStream
    \/ Microtask
    \/ CallDestroy
    \/ DestroyTimer

ApiSpec == SignalInit /\ [][ApiNext]_vars

Next ==
    \/ Microtask
    \/ CallNegotiate
    \/ CallRestartIce
    \/ CallSignal
    \/ CallAddTrack
    \/ CallRemoveTrack
    \/ CallDestroy
    \/ DestroyTimer
    \/ OfferTimer
    \/ CreateOfferResolves
    \/ CreateOfferRejects
    \/ SetLocalOfferResolves
    \/ SetLocalOfferRejects
    \/ SignalingStateChange

Spec == Init /\ [][Next]_vars

\* The connectivity monitor of one Peer.
ConnNext ==
    \/ Microtask
    \/ CallRestartIce
    \/ CallDestroy
    \/ DestroyTimer
    \/ IceStateChange
    \/ ConnectionStateChange
    \/ ChannelOpen
    \/ DataChannel
    \/ ChannelClose
    \/ StatsResult
    \/ FindPairTimer
    \/ RecoveryTimer

ConnSpec == Init /\ [][ConnNext]_vars

\* ------------------------------------------------------------ reconnect
\* The connectivity monitor, with what happened since the last 'connect' or
\* 'reconnect' kept in `connectivity`: "lost" when the ICE connection or the
\* connection left connected/completed or restartIce() began a restart, "kept"
\* otherwise, and "kept:reconnect" after a 'reconnect' that followed neither.

Since(s, lost) ==
    [s EXCEPT !.connectivity =
                  IF Emitted(s, "reconnect") /\ peer.connectivity # "lost"
                  THEN "kept:reconnect"
                  ELSE IF Emitted(s, "connect") \/ Emitted(s, "reconnect")
                  THEN "kept"
                  ELSE IF lost THEN "lost"
                  ELSE @]

RIceStateChange ==
    /\ Idle /\ peer._pc
    /\ \E st \in IceConnectionStates \ {peer.iceConnectionState} :
           Step(Since(_onIceStateChange(
                          [call(Begin(peer), "pc.iceConnectionState:" \o st)
                              EXCEPT !.iceConnectionState = st]),
                      st \notin {"connected", "completed"}))

\* The 'icegatheringstatechange' event, which has the same handler.
RGatheringStateChange ==
    /\ Idle /\ peer._pc
    /\ \E st \in {"gathering", "complete"} \ {peer.iceGatheringState} :
           Step(Since(_onIceStateChange(
                          [call(Begin(peer), "pc.iceGatheringState:" \o st)
                              EXCEPT !.iceGatheringState = st]),
                      FALSE))

RConnectionStateChange ==
    /\ Idle /\ peer._pc
    /\ \E st \in ConnectionStates :
           Step(Since(_onConnectionStateChange(Begin(peer), st),
                      st # "connected"))

RRestartIce ==
    \E s \in {restartIce(Begin(peer))} : Step(Since(s, s.returned = "true"))

RStatsResult ==
    /\ Idle /\ peer.statsPending > 0
    /\ \E stats \in Stats, sendThrows \in BOOLEAN :
           Step(Since(StatsCallback(
                          [call(Begin(peer), "getStats.cb")
                              EXCEPT !.statsPending = @ - 1],
                          stats, sendThrows),
                      FALSE))

ReconnectNext ==
    \/ Microtask
    \/ RRestartIce
    \/ CallDestroy
    \/ DestroyTimer
    \/ RIceStateChange
    \/ RGatheringStateChange
    \/ RConnectionStateChange
    \/ ChannelOpen
    \/ DataChannel
    \/ RStatsResult
    \/ FindPairTimer

ReconnectSpec == Init /\ [][ReconnectNext]_vars

\* ------------------------------------------------------------ resolution
\* The connectivity resolution of one Peer: the engine answers every
\* statistics query, with any report, and every timer expires.

ResolveDue ==
    \/ Microtask
    \/ StatsResult
    \/ FindPairTimer
    \/ DestroyTimer

ResolveNext ==
    \/ ResolveDue
    \/ IceStateChange
    \/ ChannelOpen
    \/ DataChannel
    \/ CallDestroy

ResolveSpec == Init /\ [][ResolveNext]_vars /\ WF_vars(ResolveDue)

\* The stream adapter of one Peer whose ICE restart policy is disabled.
StreamInit ==
    /\ \E initiator \in BOOLEAN : peer = Peer(initiator, "false")
    /\ peer2 = Null /\ wire = Null

StreamNext ==
    \/ Microtask
    \/ CallDestroy
    \/ DestroyTimer
    \/ IceStateChange
    \/ ConnectionStateChange
    \/ ChannelOpen
    \/ DataChannel
    \/ ChannelClose
    \/ StatsResult
    \/ FindPairTimer
    \/ Write
    \/ BufferedAmountLow
    \/ CallEnd
    \/ Final
    \/ FinishTimer

StreamSpec == StreamInit /\ [][StreamNext]_vars

\* The timers and microtasks that are due run, the stream calls _final when
\* it may, and the channel reports that its buffer went low.
StreamDue ==
    \/ Microtask
    \/ DestroyTimer
    \/ Final
    \/ FinishTimer
    \/ BufferedAmountLow

StreamLiveSpec == StreamSpec /\ WF_vars(StreamDue)

\* ------------------------------------------------------------ two peers
\* The test 'duplex stream: send data one-way': peer1 is the initiator and
\* peer2 the responder, each 'signal' event of one is handed to signal() of
\* the other, and once both are connected 'abc' is piped into peer1.  The
\* engines and the network work: no call of the engine fails, a connection is
\* found once both sides hold both descriptions and a candidate of the other
\* side, and the channel delivers in order.

\* Candidates an engine gathers for a local description.
Candidates == 1

Me(i) == IF i = 1 THEN peer ELSE peer2

Other(i) == IF i = 1 THEN peer2 ELSE peer

IsSignal(e) ==
    e \in {"signal:offer", "signal:answer", "signal:candidate",
           "signal:renegotiate", "signal:transceiverRequest"}

\* The message a 'signal' event carries.
DataOf(e) ==
    CASE e = "signal:offer" -> Message("offer", Null, FALSE, FALSE)
      [] e = "signal:answer" -> Message("answer", Null, FALSE, FALSE)
      [] e = "signal:candidate" -> Message(Null, "c1", FALSE, FALSE)
      [] e = "signal:renegotiate" -> Message(Null, Null, TRUE, FALSE)
      [] OTHER -> Message(Null, Null, FALSE, TRUE)

\* The listener of 'signal': signal() of the other peer, for each event.
RECURSIVE Relay(_, _)
Relay(o, es) ==
    IF es = <<>> THEN o ELSE Relay(signal(o, DataOf(Head(es)), FALSE), Tail(es))

IsSend(e) == e \in {"send:" \o c : c \in Chunks}

\* What a step of s puts on the channel: the chunks it sent, and the close of
\* its teardown.
Outgoing(s) ==
    LET sends == SelectSeq(s.emitted, IsSend)
    IN  [k \in DOMAIN sends |-> CHOOSE c \in Chunks : sends[k] = "send:" \o c]
            \o (IF Called(s, "channel.close") THEN <<"close">> ELSE <<>>)

\* addIceCandidate takes effect at once: the engine holds the candidates it
\* was given.
Added(s) ==
    [s EXCEPT !.remoteCandidates = @ + Len(s.addCandidatePending),
              !.addCandidatePending = <<>>]

\* The request followed, after a step that leaves the initiator in p1 and the
\* responder in p2: the initiator has called createOffer since the request,
\* and a peer has emitted 'negotiated' since that offer.
Followed(p1, p2) ==
    LET By(e) == (IF Emitted(p1, e) THEN {1} ELSE {})
                     \cup (IF Emitted(p2, e) THEN {2} ELSE {})
        a == IF p1.askedBy = 0 THEN p1
             ELSE IF ~p1.offered
             THEN [p1 EXCEPT !.offered =
                                 p1.createOfferPending > peer.createOfferPending]
             ELSE [p1 EXCEPT !.negotiatedBy = @ \cup By("negotiated")]
    IN  IF a.restarted THEN [a EXCEPT !.reconnectedBy = @ \cup By("reconnect")]
        ELSE a

\* A step of peer i to the state s, with the listeners of its 'signal' events
\* run and what it sent put on the wire.  The other peer's step output is
\* what these listeners made it emit, throw or call.
PairStepWith(i, s, other) ==
    \E t \in {s} :
        \E o \in {Relay(other, SelectSeq(t.emitted, IsSignal))} :
            \E p1 \in {Added(IF i = 1 THEN t ELSE o)},
               p2 \in {Added(IF i = 1 THEN o ELSE t)} :
                /\ peer' = Followed(p1, p2)
                /\ peer2' = p2
                /\ wire' = [wire EXCEPT ![3 - i] = @ \o Outgoing(t)]

PairStep(i, s) == PairStepWith(i, s, Begin(Other(i)))

PairInit ==
    /\ peer = Peer(TRUE, "onFailure")
    /\ peer2 = Peer(FALSE, "onFailure")
    /\ wire = <<<<>>, <<>>>>

Quiet(i) == Me(i).microtasks = 0

HasDescriptions(s) == s.localDescription # Null /\ s.remoteDescription # Null

PMicrotask(i) ==
    Me(i).microtasks > 0 /\ PairStep(i, BatchedNegotiation(Begin(Me(i))))

POfferTimer(i) ==
    /\ Quiet(i) /\ Me(i).offerTimers > 0
    /\ PairStep(i, _createOffer([Begin(Me(i)) EXCEPT !.offerTimers = @ - 1]))

PCreateOffer(i) ==
    /\ Quiet(i) /\ Me(i).createOfferPending > 0
    /\ PairStep(i, CreateOfferThen(
                       [Begin(Me(i)) EXCEPT !.createOfferPending = @ - 1]))

\* setLocalDescription(offer) takes effect: the signaling state changes, its
\* event is handled, then onSuccess runs; gathering begins.
PSetLocalOffer(i) ==
    /\ Quiet(i) /\ Me(i).setLocalOfferPending > 0 /\ Me(i)._pc
    /\ PairStep(i, SetLocalOfferSuccess(_onSignalingStateChange(
                       [Begin(Me(i)) EXCEPT !.setLocalOfferPending = @ - 1,
                                            !.localDescription = "offer"],
                       "have-local-offer")))

\* setRemoteDescription takes effect: an offer leaves the signaling state
\* "have-remote-offer", an answer "stable".
PSetRemote(i) ==
    /\ Quiet(i) /\ Me(i).setRemotePending # <<>> /\ Me(i)._pc
    /\ LET type == Head(Me(i).setRemotePending)
       IN  PairStep(i, SetRemoteThen(_onSignalingStateChange(
                           [Begin(Me(i)) EXCEPT !.setRemotePending = Tail(@),
                                                !.remoteDescription = type],
                           IF type = "offer" THEN "have-remote-offer"
                           ELSE "stable")))

PCreateAnswer(i) ==
    /\ Quiet(i) /\ Me(i).createAnswerPending > 0
    /\ PairStep(i, CreateAnswerThen(
                       [Begin(Me(i)) EXCEPT !.createAnswerPending = @ - 1]))

PSetLocalAnswer(i) ==
    /\ Quiet(i) /\ Me(i).setLocalAnswerPending > 0 /\ Me(i)._pc
    /\ PairStep(i, SetLocalAnswerSuccess(_onSignalingStateChange(
                       [Begin(Me(i)) EXCEPT !.setLocalAnswerPending = @ - 1,
                                            !.localDescription = "answer"],
                       "stable"), FALSE))

\* The engine reports a candidate it gathered for its local description.
PCandidate(i) ==
    /\ Quiet(i) /\ Me(i)._pc /\ Me(i).localDescription # Null
    /\ Me(i).gathered < Candidates
    /\ PairStep(i, _onIceCandidate([Begin(Me(i)) EXCEPT !.gathered = @ + 1], TRUE))

\* Gathering is complete: the gathering state changes, then the event without
\* a candidate follows.
PGatheringComplete(i) ==
    /\ Quiet(i) /\ Me(i)._pc /\ Me(i).gathered = Candidates
    /\ Me(i).iceGatheringState # "complete"
    /\ PairStep(i, _onIceCandidate(_onIceStateChange(
                       [Begin(Me(i)) EXCEPT !.iceGatheringState = "complete"]),
                       FALSE))

PIceCompleteTimer(i) ==
    /\ Quiet(i) /\ Me(i).iceCompleteTimer
    /\ PairStep(i, IceCompleteTimeout(
                       [Begin(Me(i)) EXCEPT !.iceCompleteTimer = FALSE]))

\* The engine begins its checks once it holds both descriptions; the
\* connection state follows the ICE state.
PIceChecking(i) ==
    /\ Quiet(i) /\ Me(i)._pc /\ Me(i).iceConnectionState = "new"
    /\ HasDescriptions(Me(i))
    /\ PairStep(i, _onConnectionStateChange(_onIceStateChange(
                       [Begin(Me(i)) EXCEPT !.iceConnectionState = "checking"]),
                       "connecting"))

PIceConnected(i) ==
    /\ Quiet(i) /\ Me(i)._pc /\ Me(i).iceConnectionState = "checking"
    /\ HasDescriptions(Other(i))
    /\ Me(i).remoteCandidates > 0 /\ Other(i).remoteCandidates > 0
    /\ PairStep(i, _onConnectionStateChange(_onIceStateChange(
                       [Begin(Me(i)) EXCEPT !.iceConnectionState = "connected",
                                            !.iceConnected = TRUE]),
                       "connected"))

\* The channel of the initiator reaches the responder and opens on both sides
\* once both engines are connected.
PDataChannel(i) ==
    /\ Quiet(i) /\ Me(i)._pc /\ ~Me(i).initiator /\ Me(i).channelState = Null
    /\ Up(Me(i)) /\ Up(Other(i))
    /\ PairStep(i, _setupData(Begin(Me(i))))

PChannelOpen(i) ==
    /\ Quiet(i) /\ Me(i)._channel /\ Me(i).channelState = "connecting"
    /\ Up(Me(i)) /\ Up(Other(i))
    /\ PairStep(i, _onChannelOpen([Begin(Me(i)) EXCEPT !.channelState = "open",
                                                       !.channelOpened = TRUE]))

\* The statistics of a connected engine hold the selected candidate pair.
PStats(i) ==
    /\ Quiet(i) /\ Me(i).statsPending > 0
    /\ PairStep(i, StatsCallback(
                       [Begin(Me(i)) EXCEPT !.statsPending = @ - 1],
                       [err |-> FALSE, selected |-> TRUE, pairs |-> TRUE,
                        locals |-> TRUE], FALSE))

\* The getter `connected`.
connected(s) == s._connected /\ s._channel /\ s.channelState = "open"

\* str('abc').pipe(peer1), once both peers are connected: the write of 'abc',
\* then end().
PWrite ==
    /\ connected(peer) /\ connected(peer2) /\ peer.writes = 0 /\ ~peer.ended
    /\ \E high \in BOOLEAN :
           PairStep(1, _write([Begin(peer) EXCEPT !.writes = 1], "abc", high, FALSE))

PEnd == peer.writes = 1 /\ ~peer.ended /\ PairStep(1, end(Begin(peer)))

PBufferedAmountLow(i) ==
    /\ Quiet(i) /\ Me(i)._channel /\ Me(i).channelState = "open" /\ Me(i)._cb
    /\ PairStep(i, _onChannelBufferedAmountLow(Begin(Me(i))))

\* The channel hands over what is next on the wire: a message, or the close
\* of the other side.  A channel that was closed hands over nothing.
PReceive(i) ==
    /\ Quiet(i) /\ wire[i] # <<>>
    /\ LET m == Head(wire[i])
           s == Begin(Me(i))
           t == IF ~s._channel \/ s.channelState # "open" THEN s
                ELSE IF m = "close"
                THEN _onChannelClose([s EXCEPT !.channelState = "closed"])
                ELSE _onChannelMessage(s, m)
       IN  /\ peer' = IF i = 1 THEN t ELSE Begin(peer)
           /\ peer2' = IF i = 2 THEN t ELSE Begin(peer2)
           /\ wire' = [wire EXCEPT ![i] = Tail(@)]

PFinal(i) ==
    /\ Quiet(i) /\ Me(i).ended /\ ~Me(i).finished /\ ~Me(i).writing
    /\ ~Me(i).destroyed
    /\ PairStep(i, _final(Begin(Me(i))))

\* The readable side, which is read, emits 'end' once it has ended.
PReadableEnd(i) ==
    /\ Quiet(i) /\ Me(i).readableEnded /\ ~Me(i).endEmitted /\ ~Me(i).destroyed
    /\ PairStep(i, [emit(Begin(Me(i)), "end") EXCEPT !.endEmitted = TRUE])

PFinishTimer(i) ==
    /\ Quiet(i) /\ Me(i).finishTimers > 0
    /\ PairStep(i, __destroy([Begin(Me(i)) EXCEPT !.finishTimers = @ - 1], "none"))

PDestroyTimer(i) ==
    /\ Quiet(i) /\ Me(i).destroyTimer # Null
    /\ PairStep(i, DestroyTimeout(Begin(Me(i))))

\* A stream that has finished and ended may destroy itself.
PAutoDestroy(i) ==
    /\ Me(i).finished /\ Me(i).endEmitted
    /\ Me(i).destroyCb # "stream" /\ ~Me(i).destroyed
    /\ PairStep(i, _destroy(Begin(Me(i)), "stream", "none"))

\* What the engines, the timers and the test are bound to do.
PairDue ==
    \/ PWrite
    \/ PEnd
    \/ \E i \in {1, 2} :
           \/ PMicrotask(i)
           \/ POfferTimer(i)
           \/ PCreateOffer(i)
           \/ PSetLocalOffer(i)
           \/ PSetRemote(i)
           \/ PCreateAnswer(i)
           \/ PSetLocalAnswer(i)
           \/ PCandidate(i)
           \/ PGatheringComplete(i)
           \/ PIceCompleteTimer(i)
           \/ PIceChecking(i)
           \/ PIceConnected(i)
           \/ PDataChannel(i)
           \/ PChannelOpen(i)
           \/ PStats(i)
           \/ PBufferedAmountLow(i)
           \/ PReceive(i)
           \/ PFinal(i)
           \/ PReadableEnd(i)
           \/ PFinishTimer(i)
           \/ PDestroyTimer(i)

PairNext == PairDue \/ \E i \in {1, 2} : PAutoDestroy(i)

PairSpec == PairInit /\ [][PairNext]_vars /\ WF_vars(PairDue)

\* --------------------------------------------------- renegotiation in a pair
\* The pair of the tests 'manual renegotiation' and 'repeated manual
\* renegotiation' (src/test/negotiation.js): once both are connected either
\* peer may call negotiate().  One of the requests is followed.

\* Calls of negotiate() by the two peers in one run.
MaxNegotiations == 2

\* negotiate() of peer i; `follow` says this is the request followed.
PNegotiate(i) ==
    /\ connected(peer) /\ connected(peer2)
    /\ peer.operations + peer2.operations < MaxNegotiations
    /\ \E follow \in BOOLEAN :
           /\ follow => peer.askedBy = 0
           /\ \E s \in {negotiate([Begin(Me(i)) EXCEPT !.operations = @ + 1])} :
                  \E o \in {Relay(Begin(Other(i)), SelectSeq(s.emitted, IsSignal))} :
                      LET p1 == IF i = 1 THEN s ELSE o
                          p2 == IF i = 1 THEN o ELSE s
                      IN  /\ peer' = IF follow THEN [p1 EXCEPT !.askedBy = i]
                                     ELSE p1
                          /\ peer2' = p2
                          /\ UNCHANGED wire

\* What the engines and the timers are bound to do.
NegDue ==
    \E i \in {1, 2} :
        \/ PMicrotask(i)
        \/ POfferTimer(i)
        \/ PCreateOffer(i)
        \/ PSetLocalOffer(i)
        \/ PSetRemote(i)
        \/ PCreateAnswer(i)
        \/ PSetLocalAnswer(i)
        \/ PCandidate(i)
        \/ PGatheringComplete(i)
        \/ PIceCompleteTimer(i)
        \/ PIceChecking(i)
        \/ PIceConnected(i)
        \/ PDataChannel(i)
        \/ PChannelOpen(i)
        \/ PStats(i)

NegNext == NegDue \/ \E i \in {1, 2} : PNegotiate(i)

NegSpec == PairInit /\ [][NegNext]_vars /\ WF_vars(NegDue)

\* ----------------------------------------------------- ICE restart in a pair
\* The pair of the test 'ice restart causes renegotiation'
\* (src/test/negotiation.js): once both are connected the peers call
\* restartIce().  The engine of the initiator restarts ICE with the offer that
\* follows _pc.restartIce(), and the engine of the responder with its answer
\* to that offer: each gathers candidates again, and keeps its connection while
\* it does.

\* Calls of restartIce() by the two peers in one run.
MaxRestartCalls == 1

PRestartIce(i) ==
    /\ connected(peer) /\ connected(peer2)
    /\ peer.operations + peer2.operations < MaxRestartCalls
    /\ LET s == restartIce([Begin(Me(i)) EXCEPT !.operations = @ + 1])
       IN  PairStep(i, IF s.returned = "true"
                       THEN [s EXCEPT !.regather = TRUE, !.restarted = TRUE,
                                      !.askedBy = 1]
                       ELSE s)

\* The local description that restarts ICE is set: the offer of the
\* initiator, or the answer of the responder.
RestartDescribed(s) ==
    IF s.initiator
    THEN s.offerTimers = 0 /\ s.createOfferPending = 0 /\ s.setLocalOfferPending = 0
    ELSE /\ s.setRemotePending = <<>> /\ s.createAnswerPending = 0
         /\ s.setLocalAnswerPending = 0

\* The engine of peer i begins to gather again: its gathering state changes.
\* The offer of the initiator makes the engine of the responder do the same.
PRegather(i) ==
    /\ Quiet(i) /\ Me(i)._pc /\ Me(i).regather /\ RestartDescribed(Me(i))
    /\ PairStepWith(i, _onIceStateChange(
                           [Begin(Me(i)) EXCEPT !.regather = FALSE,
                                                !.gathered = 0,
                                                !.iceGatheringState = "gathering"]),
                    IF i = 1 THEN [Begin(peer2) EXCEPT !.regather = TRUE]
                    ELSE Begin(peer))

\* What the engines and the timers are bound to do.
RestartDue == NegDue \/ \E i \in {1, 2} : PRegather(i)

RestartNext == RestartDue \/ \E i \in {1, 2} : PRestartIce(i)

RestartSpec == PairInit /\ [][RestartNext]_vars /\ WF_vars(RestartDue)

\* ------------------------------------------------------- media in a pair
\* The pair of the test 'single negotiation' (src/test/negotiation.js): each
\* peer is constructed with a stream, and every 'signal' event is handed to
\* signal() of the other peer.

\* new Peer({ initiator, stream }): the constructor of Lite, then addStream
\* of the stream, in the same synchronous run.
Constructed(initiator, tracks, stream) ==
    Begin(addStream(Peer(initiator, "onFailure"), tracks, stream, FALSE))

MediaPairInit ==
    /\ peer \in {Constructed(TRUE, tracks, "s1") : tracks \in TrackLists \ {<<>>}}
    /\ peer2 \in {Constructed(FALSE, tracks, "s2") : tracks \in TrackLists \ {<<>>}}
    /\ wire = <<<<>>, <<>>>>

\* setLocalDescription of the first answer takes effect, and the offer had no
\* media section for one of the tracks of the answerer: its transceiver has
\* no mid, and was not requested yet.
PMissingTransceiver(i) ==
    /\ Quiet(i) /\ Me(i).setLocalAnswerPending > 0 /\ Me(i)._pc
    /\ Me(i).localDescription = Null
    /\ PairStep(i, SetLocalAnswerSuccess(_onSignalingStateChange(
                       [Begin(Me(i)) EXCEPT !.setLocalAnswerPending = @ - 1,
                                            !.localDescription = "answer"],
                       "stable"), TRUE))

MediaPairNext == NegDue \/ \E i \in {1, 2} : PMissingTransceiver(i)

MediaPairSpec == MediaPairInit /\ [][MediaPairNext]_vars

\* ------------------------------------------------------------- properties

\* The step ran the callback of queueMicrotask.
BatchStep == peer'.microtasks < peer.microtasks

\* C1: however many _needsNegotiation() calls a tick made on a live peer, one
\* callback is pending for them, and when it runs on an initiator, or on a
\* responder whose first request was consumed, negotiate() is called exactly
\* once and the peer is negotiating.
C1_OneRoundPerBatch ==
    [][BatchStep /\ Live(peer) /\ (peer.initiator \/ ~peer._firstNegotiation)
          => /\ peer.requests >= 1
             /\ peer.microtasks = 1 /\ peer'.microtasks = 0
             /\ Calls(peer', "negotiate") = 1
             /\ peer'._isNegotiating]_vars

\* A batch of at least two requests has just run and called negotiate() once.
C1_Witness ==
    /\ Called(peer, "batch") /\ peer.requests >= 2 /\ Live(peer)
    /\ Calls(peer, "negotiate") = 1 /\ peer.microtasks = 0

\* C2: the first batch a responder runs calls no negotiate() and emits
\* nothing; every later batch of a live responder, and every batch of a live
\* initiator, calls negotiate().
C2_FirstRequestDiscarded ==
    [][BatchStep
          => /\ ~peer.initiator /\ ~peer.batchRun
                 => Calls(peer', "negotiate") = 0 /\ peer'.emitted = <<>>
             /\ ~peer.initiator /\ peer.batchRun /\ Live(peer)
                 => /\ Calls(peer', "negotiate") = 1
                    /\ peer._isNegotiating \/ Emitted(peer', "signal:renegotiate")
             /\ peer.initiator /\ Live(peer)
                 => Calls(peer', "negotiate") = 1]_vars

\* A later batch of a responder has just asked the initiator to renegotiate.
C2_Witness ==
    /\ ~peer.initiator /\ Called(peer, "batch")
    /\ Called(peer, "negotiate") /\ Emitted(peer, "signal:renegotiate")

\* C3, as claimed: no offer is scheduled while an offer scheduled since the
\* signaling state was last "stable" is open.
C3_AtMostOneRound == peer.roundsOpen <= 1

\* C3, amended: the offers scheduled since the signaling state was last
\* "stable" are at most one, and one more for each restartIce() that returned
\* true since then; without a restartIce() there is at most one.
C3_OneRoundPerRestart ==
    /\ peer.roundsOpen <= 1 + peer.restartsSinceStable
    /\ peer.roundsOpen >= 1 /\ Live(peer) /\ peer.restartsSinceStable = 0
           => peer._isNegotiating

\* A second offer was scheduled after restartIce(), the first round still open.
C3_Witness ==
    peer.initiator /\ peer.roundsOpen = 2 /\ peer.restartsSinceStable = 1

\* C4: negotiate() on a live negotiating peer schedules no offer and emits
\* no signal, it sets the queued flag; the flag is cleared only by the handler
\* of "stable", which then requests one round (one callback, no 'negotiated').
C4_QueuedReplayedOnce ==
    [][/\ Called(peer', "negotiate") /\ peer._isNegotiating /\ Live(peer)
           => /\ peer'.offerTimers = peer.offerTimers
              /\ peer'.roundsOpen = peer.roundsOpen
              /\ peer'.emitted = <<>>
              /\ peer'._queuedNegotiation
       /\ peer._queuedNegotiation /\ ~peer'._queuedNegotiation
           => /\ Emitted(peer', "signalingStateChange")
              /\ ~Emitted(peer', "negotiated")
              /\ peer.microtasks = 0 /\ peer'.microtasks = 1
              /\ peer'._batchedNegotiation /\ peer'.requests = 1]_vars

\* "stable" was handled with a queued request and no sender waiting: one
\* round is requested and 'negotiated' is held back.
C4_Witness ==
    /\ Emitted(peer, "signalingStateChange") /\ ~Emitted(peer, "negotiated")
    /\ ~Called(peer, "pc.removeTrack") /\ ~peer._isNegotiating
    /\ peer._batchedNegotiation /\ peer.microtasks = 1 /\ peer.requests = 1
    /\ ~peer._queuedNegotiation /\ Live(peer)

\* C5: restartIce() returns false and changes nothing on a responder, while
\* a restart is in progress, and when destroyed or destroying; otherwise it
\* returns true, is restarting and has requested a negotiation.
C5_RestartIceResult ==
    [][peer'.returned # Null
          => IF \/ ~peer.initiator \/ peer._isRestartingIce
                \/ peer.destroyed \/ peer._destroying
             THEN peer' = return(Begin(peer), "false")
             ELSE /\ peer'.returned = "true"
                  /\ peer'._isRestartingIce
                  /\ ~peer'._isNegotiating
                  /\ peer'._batchedNegotiation /\ peer'.microtasks = 1]_vars

\* restartIce() has just refused a live initiator that is already restarting.
C5_Witness ==
    /\ peer.returned = "false" /\ peer.initiator /\ peer._isRestartingIce
    /\ Live(peer)

\* C6: _connected holds only while _pcReady and _channelReady hold, both set
\* by an observed event (the channel opened, ICE reached connected or
\* completed); 'connect' is emitted only after both events.
C6_ConnectedImpliesReady ==
    /\ peer._connected => peer._pcReady /\ peer._channelReady
    /\ peer._pcReady => peer.iceConnected
    /\ peer._channelReady => peer.channelOpened
    /\ peer.connects > 0 \/ Emitted(peer, "connect")
           => peer.channelOpened /\ peer.iceConnected

\* 'connect' has just been emitted by a connected peer.
C6_Witness ==
    peer._connected /\ Emitted(peer, "connect") /\ peer._pcReady /\ peer._channelReady

\* The step completed a connectivity resolution: _connecting is cleared by the
\* statistics callback alone, which then destroys only if the flush threw.
ResolutionStep == peer._connecting /\ ~peer'._connecting /\ ~peer'._destroying

\* C7: 'connect' is emitted at most once; a resolution that completes after
\* it emits 'reconnect' and no step emits 'connect' again.
C7_ConnectOnce ==
    [][/\ peer'.connects <= 1
       /\ peer.connects >= 1 => ~Emitted(peer', "connect")
       /\ ResolutionStep /\ peer.connects >= 1
              => peer'.emitted = <<"reconnect">>
       /\ ResolutionStep /\ peer.connects = 0
              => peer'.emitted = <<"connect">> /\ peer'.connects = 1]_vars

\* A resolution after the first has just emitted 'reconnect'.
C7_Witness ==
    peer.connects = 1 /\ Emitted(peer, "reconnect") /\ peer._connected

\* C10: under policy on-failure, when the ICE state of a live peer that has
\* connected returns to connected or completed, from "failed" or from a state
\* it passed through after "failed", the recovery timer is cancelled, the
\* peer is not destroying and a resolution is under way; the resolution that
\* completes emits 'reconnect'; and a recovery timer that does run while ICE
\* is connected or completed destroys nothing.
C10_RecoversBeforeTimeout ==
    [][/\ peer.iceRestartEnabled = "onFailure" /\ peer._connectedOnce
          /\ Live(peer) /\ ~Up(peer) /\ Up(peer')
              => /\ peer'.recoveryTimer = 0 /\ ~peer'._iceFailureRecoveryTimer
                 /\ Live(peer')
                 /\ peer'._connecting
                 /\ peer'.statsPending + peer'.findPairTimers >= 1
       /\ peer.iceRestartEnabled = "onFailure" /\ peer._connectedOnce
          /\ ResolutionStep
              => Emitted(peer', "reconnect")
       /\ peer.recoveryTimer > 0 /\ peer'.recoveryTimer = 0 /\ Up(peer) /\ Up(peer')
          /\ Live(peer)
              => Live(peer')]_vars

\* After a failure that armed the recovery timer under policy on-failure, ICE
\* is connected again, the timer is cancelled and 'reconnect' was just emitted.
C10_Witness ==
    /\ peer.iceRestartEnabled = "onFailure" /\ peer.recovered
    /\ Up(peer) /\ Emitted(peer, "reconnect") /\ Live(peer)
    /\ peer.recoveryTimer = 0 /\ peer._connected

\* The step completed the first connectivity resolution.
FirstResolutionStep == ~peer._connectedOnce /\ peer'._connectedOnce

\* C8: a chunk held in _chunk when the first connectivity resolution completes
\* is sent once, then its callback is invoked once, then 'connect' is emitted,
\* all in that step, and the buffer is empty afterwards.
C8_BufferedChunkFlushedOnce ==
    [][FirstResolutionStep /\ peer._chunk # Null
          => /\ peer'.emitted = <<"send:" \o peer._chunk, "cb:null", "connect">>
             /\ peer'._chunk = Null /\ ~peer'._cb /\ ~peer'.writing
             /\ peer'.flushes = 1]_vars

\* The first resolution has completed and the empty chunk written before it
\* is still in the buffer, its callback not invoked.
C8_EmptyChunkKept ==
    /\ peer._connectedOnce /\ Emitted(peer, "connect")
    /\ peer._chunk = "" /\ peer._cb /\ peer.writing /\ peer.flushes = 0

\* The teardown of _destroy has run.
TornDown(s) == s._destroying /\ ~s._pc /\ s.destroyTimer = Null

\* Both peers have emitted 'connect', are torn down and have emitted 'finish'
\* and 'end'; peer2 got 'abc' in one 'data' event and peer1 got no data.
RoundTripDone ==
    /\ peer.connects = 1 /\ peer2.connects = 1
    /\ TornDown(peer) /\ TornDown(peer2)
    /\ peer.finished /\ peer.endEmitted
    /\ peer2.finished /\ peer2.endEmitted
    /\ peer.received = <<>> /\ peer2.received = <<"abc">>

\* C9: two peers coupled by their 'signal' events both emit 'connect'; what
\* peer1 writes after that reaches peer2 as one 'data' event with the same
\* content, and peer1 gets no data; in the end both peers are torn down,
\* having emitted 'finish' and 'end'.
C9_RoundTrip ==
    /\ [](/\ peer.received = <<>> /\ peer2.received \in {<<>>, <<"abc">>}
          /\ peer.writes > 0 => peer.connects = 1 /\ peer2.connects = 1
          /\ peer.finished => peer.ended)
    /\ <>[]RoundTripDone

\* The round trip is over on both sides.
C9_Witness == RoundTripDone /\ Emitted(peer2, "end")

\* ------------------------------------------------------- error handling

\* The step ran the callback of the recovery timer: the timer is no longer
\* pending and its handle is left in _iceFailureRecoveryTimer.
RecoveryTimerStep ==
    peer.recoveryTimer > 0 /\ peer'.recoveryTimer = 0 /\ peer'._iceFailureRecoveryTimer

\* The kind of the error with which ICE failure destroys a peer at once, the
\* restart policy being disabled.
IceFailedKind ==
    _onIceStateChange([Peer(TRUE, "false") EXCEPT !.iceConnectionState = "failed"])
        .destroyTimer

\* C11: when the recovery timer expires on a live peer whose ICE connection
\* state is not connected or completed, the peer is destroyed with an error
\* whose kind is not the kind of the immediate ICE failure.
C11_RecoveryKindDistinct ==
    [][RecoveryTimerStep /\ Live(peer) /\ ~Up(peer)
          => /\ peer'._destroying
             /\ peer'.destroyTimer \notin {Null, "none", IceFailedKind}]_vars

\* The recovery timer has expired under a restart policy and the peer is being
\* destroyed with the kind of the immediate ICE failure.
C11_SameKind ==
    /\ peer.iceRestartEnabled # "false" /\ peer._destroying
    /\ peer.recoveryTimer = 0 /\ peer._iceFailureRecoveryTimer
    /\ peer.destroyTimer = IceFailedKind /\ IceFailedKind = "ERR_ICE_CONNECTION_FAILURE"

\* The pair (track, stream) has an association, and its sender is in use.
Associated(s, track, stream) == Sender(s, track, stream) # Null

LiveSender(s, track, stream) ==
    Associated(s, track, stream) /\ s.senders[Sender(s, track, stream)] = "live"

\* What C12 says of a step that is addTrack(track, stream) on a live peer: a
\* pair with a live association is refused with ERR_SENDER_ALREADY_ADDED, a
\* pair whose association was removed with ERR_SENDER_REMOVED, and a refusal
\* calls no engine and requests no negotiation.
AddTrackRefusals ==
    \A track \in Tracks, stream \in Streams, engineThrows \in BOOLEAN :
        Live(peer) /\ Associated(peer, track, stream)
            /\ peer' = MAdd(peer, track, stream, engineThrows)
            => /\ peer'.thrown = IF LiveSender(peer, track, stream)
                                 THEN "ERR_SENDER_ALREADY_ADDED"
                                 ELSE "ERR_SENDER_REMOVED"
               /\ ~Called(peer', "pc.addTrack")
               /\ peer' = throw(Begin(peer), peer'.thrown)

\* C12, as claimed: the refusals, and the engine's addTrack is called at most
\* once for each (track, stream).
C12_EngineCalledOnce ==
    [][/\ AddTrackRefusals
       /\ \A track \in Tracks, stream \in Streams :
              peer'.engineAdds[track][stream] <= 1]_vars

\* C12, amended: the refusals, and the engine's addTrack returns a sender at
\* most once for each (track, stream): it is called only for a pair that has
\* no association, a call that throws leaves the pair without one, and an
\* association is never taken back while the peer is live.
C12_OneSenderPerPair ==
    [][/\ AddTrackRefusals
       /\ \A track \in Tracks, stream \in Streams :
              /\ peer'.sendersMade[track][stream] <= 1
              /\ peer'.engineAdds[track][stream] > peer.engineAdds[track][stream]
                     => /\ ~Associated(peer, track, stream)
                        /\ Associated(peer', track, stream) <=> peer'.thrown = Null
              /\ Associated(peer, track, stream) /\ Live(peer')
                     => Sender(peer', track, stream) = Sender(peer, track, stream)]_vars

\* addTrack has just been refused for a pair whose association was removed,
\* after the engine's addTrack threw once and gave a sender once for the pair.
C12_Witness ==
    /\ Live(peer) /\ peer.thrown = "ERR_SENDER_REMOVED"
    /\ \E track \in Tracks, stream \in Streams :
           /\ peer.engineAdds[track][stream] = 2
           /\ peer.sendersMade[track][stream] = 1
           /\ Associated(peer, track, stream) /\ ~LiveSender(peer, track, stream)

\* The step is signal() of an input of the set D on a live peer.
SignalOf(D) ==
    /\ Live(peer)
    /\ \E input \in D, engineThrows \in BOOLEAN :
           peer' = signal(Begin(peer), Parse(input), engineThrows)

\* The inputs that have none of sdp, candidate, renegotiate and
\* transceiverRequest once parsed, and the others.
Shapeless == {input \in Inputs : Parse(input) = Empty}

Shaped == Inputs \ Shapeless

\* C13: signal() of an input with none of the four fields (an empty object,
\* a string that does not parse) starts the destruction of a live peer with
\* ERR_SIGNALING; signal() of an input with one of them does not, and nothing
\* else does.
C13_ShapelessSignalDestroys ==
    [][/\ SignalOf(Shapeless)
           => /\ peer'._destroying /\ peer'.destroyTimer = "ERR_SIGNALING"
              /\ peer' = __destroy(Begin(peer), "ERR_SIGNALING")
       /\ SignalOf(Shaped) => peer'.destroyTimer # "ERR_SIGNALING"
       /\ peer'.destroyTimer = "ERR_SIGNALING" /\ peer.destroyTimer # "ERR_SIGNALING"
           => SignalOf(Shapeless)]_vars

\* A peer that had set a remote description is being destroyed with
\* ERR_SIGNALING.
C13_Witness ==
    /\ peer._destroying /\ peer.destroyTimer = "ERR_SIGNALING"
    /\ peer.remoteDescription # Null

\* C14: a public operation called after the teardown raises ERR_DESTROYED
\* and changes nothing else.
C14_RaisesDestroyed ==
    [][\A op \in PublicOperations :
           TornDown(peer) /\ Called(peer', op)
               => peer' = throw(Enter(op), "ERR_DESTROYED")]_vars

\* A public operation was called on a peer that the stream holds destroyed,
\* and it returned without raising anything.
C14_SilentReturn ==
    /\ peer.destroyed /\ TornDown(peer) /\ peer.thrown = Null
    /\ \E op \in PublicOperations : peer.called = <<op>>

\* The kinds of the errors a peer is destroyed with.
ErrorKinds ==
    {"ERR_ADD_TRANSCEIVER", "ERR_CONNECTION_FAILURE", "ERR_CREATE_ANSWER",
     "ERR_CREATE_OFFER", "ERR_DATA_CHANNEL", "ERR_ICE_CONNECTION_CLOSED",
     "ERR_ICE_CONNECTION_FAILURE", "ERR_REMOVE_TRACK",
     "ERR_SET_LOCAL_DESCRIPTION", "ERR_SET_REMOTE_DESCRIPTION", "ERR_SIGNALING",
     "ERR_UNSUPPORTED_REPLACETRACK"}

\* The 'error' events of the step that led to s.
ErrorEvents(s) == {i \in DOMAIN s.emitted : s.emitted[i] \in ErrorKinds}

\* C15: once the destruction is requested the kind it was requested with is
\* kept until the teardown, whatever fails or is requested later; the teardown
\* runs once and is the only step that emits 'error', once and with that
\* kind; nothing is emitted or queued for destruction after it.
C15_DestroyOnce ==
    [][/\ peer._destroying
           => /\ peer'._destroying
              /\ peer'.destroyTimer \in {peer.destroyTimer, Null}
              /\ peer'.destroyCb \in {peer.destroyCb, Null}
       /\ ErrorEvents(peer') # {}
           => /\ peer.destroyTimer \in ErrorKinds /\ peer'.destroyTimer = Null
              /\ Cardinality(ErrorEvents(peer')) = 1
              /\ Emitted(peer', peer.destroyTimer)
       /\ peer.destroyTimer \in ErrorKinds /\ peer'.destroyTimer = Null
           => Emitted(peer', peer.destroyTimer)
       /\ TornDown(peer) => TornDown(peer') /\ ErrorEvents(peer') = {}]_vars

\* The ICE connection failed while the peer was being destroyed for a failed
\* connection, and the kind of the first failure is still the one queued.
C15_Witness ==
    /\ peer._destroying /\ peer.destroyTimer = "ERR_CONNECTION_FAILURE"
    /\ peer.iceRestartEnabled = "false" /\ ~peer._isRestartingIce
    /\ peer.iceConnectionState = "failed" /\ Emitted(peer, "iceStateChange")

\* C16: a write that is pending when the peer is destroyed (buffered before
\* the connect, or held back by backpressure) has its callback invoked in the
\* end.
C16_PendingWriteSettles == (peer._destroying /\ peer.writing) ~> ~peer.writing

\* The teardown has run on a peer that held the callback of a write: the
\* callback is gone and was not invoked.
C16_CallbackDropped ==
    /\ TornDown(peer) /\ peer.writing /\ ~peer._cb
    /\ ~peer.readableEnded /\ ~peer.finished

\* C17: once the teardown has run no timer of the peer is pending: not the
\* ICE-failure recovery timer, not the ICE-gathering-complete timer, not the
\* channel-closing interval and not the buffered-amount interval.
C17_TimersCancelled ==
    TornDown(peer)
        => /\ peer.recoveryTimer = 0 /\ ~peer.iceCompleteTimer
           /\ ~peer._closingInterval /\ ~peer._interval

\* The callback of the recovery timer ran against a torn-down peer and threw
\* on the connection that is null.
C17_TimerAfterTeardown ==
    /\ TornDown(peer) /\ peer.thrown = "TypeError"
    /\ peer._iceFailureRecoveryTimer /\ peer.recoveryTimer = 0

\* The request followed has led to an offer the initiator created after it
\* and to 'negotiated' on both peers after that offer.
RoundDone == peer.offered /\ peer.negotiatedBy = {1, 2}

Restored ==
    /\ RoundDone /\ peer.reconnectedBy = {1, 2}
    /\ Up(peer) /\ Up(peer2)
    /\ ~peer.regather /\ ~peer2.regather

\* C19: after restartIce() of the initiator returned true in a connected
\* pair, both peers come back to "stable" and to a connected ICE state and
\* emit 'reconnect'; no peer ever emits 'connect' a second time.
C19_RestartReconnects ==
    /\ [](peer.connects <= 1 /\ peer2.connects <= 1)
    /\ peer.restarted ~> Restored

\* Both peers have gathered again after the restart and emitted 'reconnect',
\* having emitted 'connect' once.
C19_Witness ==
    /\ peer.restarted /\ Restored
    /\ peer.connects = 1 /\ peer2.connects = 1
    /\ peer.iceConnected /\ peer2.iceConnected
    /\ peer.iceGatheringState = "complete" /\ peer2.iceGatheringState = "complete"

\* The peer holds the sender of a track of the stream it was constructed
\* with.
StreamAdded(s, stream) ==
    \E t \in Tracks : s._senderMap[t] # Null /\ Sender(s, t, stream) # Null

\* C20: in a pair whose peers were each constructed with a media stream, no
\* peer emits a 'signal' event with renegotiate: true while the connection
\* is set up.
C20_NoRenegotiateSignal ==
    /\ ~Emitted(peer, "signal:renegotiate")
    /\ ~Emitted(peer2, "signal:renegotiate")

\* Both peers, each constructed with a stream, are connected; the responder
\* has run its first batched negotiation.
C20_Witness ==
    /\ connected(peer) /\ connected(peer2)
    /\ StreamAdded(peer, "s1") /\ StreamAdded(peer2, "s2")
    /\ peer2.batchRun /\ ~peer2._firstNegotiation

\* C21: no candidate goes to the engine before a remote description exists;
\* on a live peer the candidates that arrive before it wait in
\* _pendingCandidates in arrival order, and once it is applied the queue is
\* empty and the engine was given every candidate that arrived, once each and
\* in arrival order.
C21_PendingCandidatesReplayed ==
    /\ peer.remoteDescription = Null => peer.addCandidatePending = <<>>
    /\ Live(peer) =>
           IF peer.remoteDescription = Null
           THEN peer._pendingCandidates = wire
           ELSE /\ peer._pendingCandidates = <<>>
                /\ peer.addCandidatePending = wire

\* The step that applied the remote description gave the engine two
\* candidates that had waited for it.
C21_Witness ==
    /\ Live(peer) /\ peer.remoteDescription # Null
    /\ Calls(peer, "pc.addIceCandidate") = 2
    /\ Len(wire) = 2 /\ peer.addCandidatePending = wire

\* The completion callbacks of writes the step invoked.
Completions(s) ==
    Cardinality({k \in DOMAIN s.emitted :
                     s.emitted[k] \in {"cb:" \o Null, "cb:ERR_DATA_CHANNEL"}})

\* The stream called _write in the step.
WriteStep == peer'.writes > peer.writes

\* The connected peer holds the callback of a write.
Held(s) == s._connected /\ s.writing /\ s._cb

\* C22: a write made while connected sends its chunk in the same step (or
\* destroys the peer, when the channel's send throws); its callback is
\* invoked in that step, once, when the channel's buffer is not above the
\* mark after the send, and is held otherwise.  A held callback is invoked
\* only in a step that leaves the buffer at the mark or below (the
\* 'bufferedamountlow' event, or a tick of the polling interval), and then
\* once.
C22_Backpressure ==
    [][/\ WriteStep /\ peer._connected
           => \/ /\ peer'._destroying /\ peer'.destroyTimer = "ERR_DATA_CHANNEL"
                 /\ Completions(peer') = 0
              \/ /\ \E chunk \in Chunks : Emitted(peer', "send:" \o chunk)
                 /\ IF peer'.bufferedAmountHigh
                    THEN Completions(peer') = 0 /\ Held(peer')
                    ELSE /\ Completions(peer') = 1 /\ Emitted(peer', "cb:" \o Null)
                         /\ ~peer'.writing /\ ~peer'._cb
       /\ Held(peer) /\ Completions(peer') > 0
           => /\ ~peer'.bufferedAmountHigh
              /\ Completions(peer') = 1 /\ Emitted(peer', "cb:" \o Null)
              /\ ~peer'.writing /\ ~peer'._cb
              /\ peer' \in {_onChannelBufferedAmountLow(
                                [Begin(peer) EXCEPT !.bufferedAmountHigh = FALSE]),
                            _onInterval(Begin(peer), FALSE)}
       /\ Held(peer) /\ peer.bufferedAmountHigh /\ peer'.bufferedAmountHigh
           => Completions(peer') = 0]_vars

\* A tick of the polling interval has released the callback of a write that
\* filled the buffer of a channel without the event.
C22_Witness ==
    /\ peer._connected /\ peer._interval /\ ~peer.bufferedAmountLowThreshold
    /\ peer.writes = 1 /\ peer.flushes = 0 /\ peer._chunk = Null
    /\ Completions(peer) = 1 /\ ~peer.writing /\ ~peer.bufferedAmountHigh
    /\ peer.emitted = <<"cb:" \o Null>>

\* C23: once the writable side has finished, a connected peer is never left
\* half-closed: its destruction has started, or the timer of the grace delay
\* that starts it is running.
C23_NeverHalfClosed ==
    peer.finished /\ peer._connected
        => peer._destroying \/ peer.finishTimers > 0

\* The writable side finished while the connection state was not
\* "connected"; the peer has emitted 'reconnect' since and is connected, with
\* the listener _onFinish left for 'connect' still waiting and no timer set.
C23_HalfClosed ==
    /\ peer.finished /\ peer._connected /\ peer._connectedOnce
    /\ ~peer._destroying /\ peer.finishTimers = 0 /\ peer.destroyTimer = Null
    /\ peer.connectListeners = 1
    /\ Emitted(peer, "reconnect")

\* The handler of the engine's signaling state ran in the step, and the
\* state was "stable".
StableStep == Called(peer', "pc.signalingState:stable")

\* C24: the handler of "stable" on a live peer clears _isNegotiating and the
\* queue, and does one of two things: with a negotiation queued or senders
\* waiting to be removed it requests a negotiation and emits no 'negotiated',
\* otherwise it emits 'negotiated' once and requests nothing.  No step emits
\* 'negotiated' and leaves a negotiation queued.
C24_StableRequestsOrNegotiated ==
    [][/\ StableStep /\ Live(peer)
           => /\ ~peer'._isNegotiating /\ ~peer'._queuedNegotiation
              /\ peer'._sendersAwaitingStable = <<>>
              /\ IF peer._queuedNegotiation \/ peer._sendersAwaitingStable # <<>>
                 THEN /\ ~Emitted(peer', "negotiated")
                      /\ peer'._batchedNegotiation
                      /\ peer'.microtasks = peer.microtasks + 1
                      /\ peer'.requests = 1
                 ELSE /\ peer'.emitted = <<"negotiated", "signalingStateChange">>
                      /\ peer'.microtasks = peer.microtasks
                      /\ peer'._batchedNegotiation = peer._batchedNegotiation
       /\ Emitted(peer', "negotiated")
           => ~peer._queuedNegotiation /\ ~peer'._queuedNegotiation]_vars

\* "stable" was handled with a sender waiting to be removed and no request
\* queued: the sender is removed, a negotiation is requested and 'negotiated'
\* is not emitted.
C24_Witness ==
    /\ Called(peer, "pc.signalingState:stable") /\ Called(peer, "pc.removeTrack")
    /\ ~Emitted(peer, "negotiated") /\ ~peer._isNegotiating
    /\ peer._batchedNegotiation /\ peer.microtasks = 1
    /\ ~peer._destroying /\ ~peer.destroyed

\* C25: a responder has no offer in the making (no timer of negotiate(), no
\* createOffer or setLocalDescription(offer) pending) and emits no signal of
\* type offer; an initiator emits no renegotiate signal.  negotiate() of a
\* live responder that is not negotiating emits the renegotiate signal and
\* nothing else; while negotiating it queues the request.
C25_OnlyInitiatorOffers ==
    /\ [](/\ ~peer.initiator
              => /\ peer.offerTimers = 0 /\ peer.createOfferPending = 0
                 /\ peer.setLocalOfferPending = 0 /\ peer.gatherWaiters = <<>>
                 /\ ~Emitted(peer, "signal:offer")
          /\ peer.initiator => ~Emitted(peer, "signal:renegotiate"))
    /\ [][Called(peer', "negotiate") /\ ~peer.initiator /\ Live(peer)
             => IF peer._isNegotiating
                THEN peer'.emitted = <<>> /\ peer'._queuedNegotiation
                ELSE /\ peer'.emitted = <<"signal:renegotiate">>
                     /\ peer'._isNegotiating]_vars

\* A responder past its first batch ran negotiate(): it has asked the
\* initiator for an offer.
C25_Witness ==
    /\ ~peer.initiator /\ Called(peer, "negotiate") /\ Called(peer, "batch")
    /\ peer.emitted = <<"signal:renegotiate">> /\ peer._isNegotiating

\* The handler of the ICE state ran in the step.
IceStep == Emitted(peer', "iceStateChange")

\* C26: when the ICE connection state of a live peer becomes "closed" the
\* peer starts its destruction with ERR_ICE_CONNECTION_CLOSED; when it
\* becomes "failed" the peer starts its destruction with
\* ERR_ICE_CONNECTION_FAILURE if the restart policy is disabled and no restart
\* is in progress, and otherwise stays live with the recovery timer running.
C26_IceClosedOrFailed ==
    [][IceStep /\ Live(peer)
          => /\ peer'.iceConnectionState = "closed"
                 => /\ peer'._destroying
                    /\ peer'.destroyTimer = "ERR_ICE_CONNECTION_CLOSED"
             /\ peer'.iceConnectionState = "failed"
                 => IF peer.iceRestartEnabled = "false" /\ ~peer._isRestartingIce
                    THEN /\ peer'._destroying
                         /\ peer'.destroyTimer = "ERR_ICE_CONNECTION_FAILURE"
                         /\ peer'.recoveryTimer = 0
                    ELSE /\ Live(peer')
                         /\ peer'.recoveryTimer > 0 /\ peer'._iceFailureRecoveryTimer]_vars

\* ICE failed on a live peer with a restart policy, and no recovery timer is
\* running: the handle of a timer that expired while ICE was connected is
\* still held.
C26_FailedWithoutTimer ==
    /\ peer.iceRestartEnabled # "false"
    /\ Emitted(peer, "iceStateChange") /\ peer.iceConnectionState = "failed"
    /\ peer.recoveryTimer = 0 /\ peer._iceFailureRecoveryTimer
    /\ ~peer._destroying /\ ~peer.destroyed

\* The state the peer was told of asks for an ICE restart under its policy.
Policy(s, state) ==
    \/ state = "failed" /\ s.iceRestartEnabled = "onFailure"
    \/ state = "disconnected" /\ s.iceRestartEnabled = "onDisconnect"

\* The step set the restarting flag.
RestartBegins == ~peer._isRestartingIce /\ peer'._isRestartingIce

\* C27: a live initiator that is not restarting and whose ICE state becomes
\* "failed" under policy on-failure, or "disconnected" under policy
\* on-disconnect, restarts ICE in the handler of that event.  A restart
\* begins only there, in the handler of the connection state under the same
\* conditions, or in a restartIce() of the caller; a responder is never
\* restarting.
C27_AutomaticRestart ==
    /\ [](~peer.initiator => ~peer._isRestartingIce /\ peer.restartsSinceStable = 0)
    /\ [][/\ IceStep /\ Live(peer) /\ peer.initiator /\ ~peer._isRestartingIce
             /\ Policy(peer, peer'.iceConnectionState)
                 => /\ peer'._isRestartingIce
                    /\ peer'.restartsSinceStable = peer.restartsSinceStable + 1
                    /\ peer'._batchedNegotiation /\ peer'.microtasks >= 1
          /\ RestartBegins
                 => /\ peer.initiator /\ Live(peer)
                    /\ \/ peer'.returned = "true"
                       \/ IceStep /\ Policy(peer, peer'.iceConnectionState)
                       \/ \E st \in ConnectionStates :
                              /\ Policy(peer, st)
                              /\ peer' = _onConnectionStateChange(Begin(peer), st)]_vars

\* "disconnected" on a live initiator under policy on-disconnect: the handler
\* of the ICE state has begun a restart.
C27_Witness ==
    /\ peer.initiator /\ peer.iceRestartEnabled = "onDisconnect"
    /\ Emitted(peer, "iceStateChange") /\ peer.iceConnectionState = "disconnected"
    /\ peer._isRestartingIce /\ peer.returned = Null
    /\ peer.restartsSinceStable = 1 /\ ~peer._destroying

\* The step told the peer of a failure: the ICE connection state became
\* "failed", or the connection state did.
FailureStep ==
    \/ IceStep /\ peer'.iceConnectionState = "failed"
    \/ Live(peer) /\ peer' = _onConnectionStateChange(Begin(peer), "failed")

\* C28 as stated: at most one recovery timer is pending; none is pending
\* once the handler of the ICE state has seen connected or completed, and
\* none after a restartIce() of the caller that returned true; a timer is
\* set only in a step that tells the peer of a failure.
C28_TimerPerEpisode ==
    /\ [](peer.recoveryTimer <= 1)
    /\ [][/\ IceStep /\ Up(peer')
                 => peer'.recoveryTimer = 0 /\ ~peer'._iceFailureRecoveryTimer
          /\ peer'.returned = "true" => peer'.recoveryTimer = 0
          /\ peer'.recoveryTimer > peer.recoveryTimer => FailureStep]_vars

\* C28, amended: at most one recovery timer is pending; none is pending once
\* the handler of the ICE state has seen connected or completed; a
\* restartIce() that returns true restarts the timer when the peer holds the
\* handle of one and sets none otherwise; a timer is set only in a step that
\* tells the peer of a failure, or that begins a restart with a handle held.
C28_TimerRestarted ==
    /\ [](peer.recoveryTimer <= 1)
    /\ [][/\ IceStep /\ Up(peer')
                 => peer'.recoveryTimer = 0 /\ ~peer'._iceFailureRecoveryTimer
          /\ peer'.returned = "true"
                 => /\ peer'._iceFailureRecoveryTimer = peer._iceFailureRecoveryTimer
                    /\ peer'.recoveryTimer =
                           IF peer._iceFailureRecoveryTimer THEN 1 ELSE 0
          /\ peer'.recoveryTimer > peer.recoveryTimer
                 => \/ FailureStep
                    \/ RestartBegins /\ peer._iceFailureRecoveryTimer]_vars

\* restartIce() of the caller has returned true with a recovery timer
\* pending before it: a timer is pending after it.
C28_Witness ==
    /\ peer.returned = "true" /\ peer._isRestartingIce
    /\ peer.recoveryTimer = 1 /\ peer._iceFailureRecoveryTimer
    /\ peer.iceConnectionState = "failed"

\* How many times the step emitted e.
Emits(s, e) == Cardinality({i \in DOMAIN s.emitted : s.emitted[i] = e})

\* The step is one of the three that complete gathering: the gathering state
\* of the engine reaches "complete", the engine reports the null candidate,
\* or the timer of _startIceCompleteTimeout expires.
GatheringTrigger ==
    \/ Called(peer', "pc.iceGatheringState:complete")
    \/ Called(peer', "pc.onicecandidate:null")
    \/ Called(peer', "iceCompleteTimeout")

\* C29: no step emits '_iceGatheringComplete' twice; it is emitted only by
\* the gathering state reaching "complete", by a null candidate or by the
\* gathering timeout, and only when it was not emitted before for this
\* gathering; 'iceTimeout' is emitted only by the timeout, which then emits
\* '_iceGatheringComplete' too.
C29_GatheringCompleteOnce ==
    [][/\ Emits(peer', "_iceGatheringComplete") <= 1
       /\ peer._iceGatheringComplete
              => /\ ~Emitted(peer', "_iceGatheringComplete")
                 /\ ~Emitted(peer', "iceTimeout")
       /\ Emitted(peer', "_iceGatheringComplete") => GatheringTrigger
       /\ Emitted(peer', "iceTimeout")
              => /\ Called(peer', "iceCompleteTimeout")
                 /\ Emitted(peer', "_iceGatheringComplete")]_vars

\* The gathering state of the engine was "complete" and stays so, and the
\* handler of an ICE connection state emits '_iceGatheringComplete' again.
C29_SignalledAgain ==
    /\ Emitted(peer, "_iceGatheringComplete") /\ peer.called = <<>>
    /\ Emitted(peer, "iceStateChange") /\ peer.iceGatheringState = "complete"
    /\ peer.iceConnectionState = "connected" /\ peer._iceFailureRecoveryTimer = FALSE
    /\ peer.gatherWaiters = <<>>

\* Offer and answer signals the step emitted.
Sent(s) == Emits(s, "signal:offer") + Emits(s, "signal:answer")

\* The step is onSuccess of setLocalDescription, of an offer or an answer.
SetLocalStep == Called(peer', "setLocalDescription.then")

\* C30: without trickle no step emits a candidate signal, and a step emits
\* an offer or answer signal only when '_iceGatheringComplete' was emitted
\* before it; onSuccess of setLocalDescription on a peer with its engine
\* emits the one signal of its description at once with trickle or when
\* gathering was complete, and otherwise emits none and leaves one sender
\* waiting; the step that emits '_iceGatheringComplete' emits one signal for
\* each sender waiting and leaves none waiting; no other step emits an offer
\* or answer signal or changes the senders waiting.
C30_SignalAfterGathering ==
    [][/\ ~peer.trickle
              => /\ ~Emitted(peer', "signal:candidate")
                 /\ Sent(peer') > 0
                        => \/ peer._iceGatheringComplete
                           \/ Emitted(peer', "_iceGatheringComplete")
       /\ SetLocalStep /\ ~peer.destroyed /\ peer._pc
              => IF peer.trickle \/ peer._iceGatheringComplete
                 THEN /\ Sent(peer') = 1
                      /\ peer'.gatherWaiters = peer.gatherWaiters
                 ELSE /\ Sent(peer') = 0
                      /\ Len(peer'.gatherWaiters) = Len(peer.gatherWaiters) + 1
       /\ Emitted(peer', "_iceGatheringComplete") /\ ~peer.destroyed /\ peer._pc
              => /\ Sent(peer') = Len(peer.gatherWaiters)
                 /\ peer'.gatherWaiters = <<>>
       /\ ~SetLocalStep /\ ~Emitted(peer', "_iceGatheringComplete")
              => /\ Sent(peer') = 0
                 /\ peer'.gatherWaiters = peer.gatherWaiters
       /\ peer.trickle => peer'.gatherWaiters = <<>>]_vars

\* Without trickle, two offers waited for the end of gathering and the step
\* that emitted '_iceGatheringComplete' emitted both.
C30_Witness ==
    /\ ~peer.trickle /\ Emitted(peer, "_iceGatheringComplete")
    /\ Emits(peer, "signal:offer") = 2 /\ peer.gatherWaiters = <<>>
    /\ ~peer._destroying

\* The events a completion or event of the engine makes the peer emit.
LateEvents ==
    {"signal:offer", "signal:answer", "signal:candidate", "signal:renegotiate",
     "signal:transceiverRequest", "connect", "reconnect", "negotiated",
     "iceTimeout"} \cup {"data:" \o c : c \in Chunks}

\* The step is a completion or an event of the engine, or a timer.
EngineStep ==
    \/ peer.createOfferPending > peer'.createOfferPending
    \/ peer.setLocalOfferPending > peer'.setLocalOfferPending
    \/ \E st \in SignalingStates : Called(peer', "pc.signalingState:" \o st)

\* C31: once _destroy has begun, a completion or event of the engine makes
\* the peer emit none of 'signal', 'connect', 'reconnect', 'negotiated',
\* 'iceTimeout' and 'data', and leaves the flags of the negotiation alone.
C31_LateCompletionsIgnored ==
    [][peer._destroying /\ EngineStep
          => /\ \A e \in LateEvents : ~Emitted(peer', e)
             /\ peer'._isNegotiating = peer._isNegotiating
             /\ peer'._queuedNegotiation = peer._queuedNegotiation]_vars

\* _destroy has begun, its teardown has not run, and onSuccess of
\* setLocalDescription has emitted the offer as a 'signal'.
C31_SignalWhileDestroying ==
    /\ peer._destroying /\ peer.destroyTimer # Null /\ peer._pc
    /\ peer.emitted = <<"signal:offer">>

\* C32: a step emits 'reconnect' only when, since the last 'connect' or
\* 'reconnect', the ICE connection or the connection left
\* connected/completed or restartIce() began a restart; a step of the
\* handler of the ICE connection and gathering states on a connected peer
\* whose connectivity was kept begins no resolution.
C32_ReconnectAfterLoss ==
    [][/\ Emitted(peer', "reconnect") => peer.connectivity = "lost"
       /\ (/\ Emitted(peer', "iceStateChange")
           /\ peer._connected /\ peer.connectivity # "lost"
           /\ Up(peer) /\ Up(peer'))
              => peer'.statsPending = peer.statsPending]_vars

\* A peer that emitted 'connect', lost nothing and restarted nothing since,
\* has emitted 'reconnect'.
C32_ReconnectWhileConnected ==
    /\ peer.connectivity = "kept:reconnect" /\ Emitted(peer, "reconnect")
    /\ peer._connected /\ peer.restartsSinceStable = 0
    /\ peer.iceConnectionState = "completed"

\* C33: a live peer whose engine and channel are ready becomes connected,
\* whatever the statistics queries report, unless it is destroyed first.
C33_ResolutionTerminates ==
    (peer._pcReady /\ peer._channelReady /\ Live(peer))
        ~> (peer._connected \/ ~Live(peer))

\* The statistics query of a ready, live peer has failed or reported no
\* candidate pair, and findCandidatePair waits for its timer again.
C33_RetryPending ==
    /\ peer._pcReady /\ peer._channelReady /\ Live(peer)
    /\ peer._connecting /\ ~peer._connected
    /\ peer.findPairTimers = 1 /\ peer.statsPending = 0
    /\ peer.emitted = <<>> /\ peer.channelState = "open"

\* _needsNegotiation() was called between s and r.
Requested(s, r) ==
    /\ r._batchedNegotiation
    /\ r.requests = IF s._batchedNegotiation THEN s.requests + 1 ELSE 1

\* removeTrack of a live peer, for every pair and every outcome of the
\* engine: a pair with no sender throws ERR_TRACK_NOT_ADDED and changes
\* nothing; otherwise the sender is marked removed, it is queued exactly when
\* the engine throws NS_ERROR_UNEXPECTED, and negotiation is requested.
RemoveTrackCorrect(s) ==
    \A track \in Tracks, stream \in Streams, outcome \in RemoveOutcomes :
        LET r == removeTrack(Begin(s), track, stream, outcome)
            x == Sender(s, track, stream)
        IN  IF x = Null
            THEN r = throw(Begin(s), "ERR_TRACK_NOT_ADDED")
            ELSE /\ r.thrown = Null /\ r.senders[x] = "removed"
                 /\ Requested(s, r)
                 /\ r._sendersAwaitingStable =
                        IF outcome = "NS_ERROR_UNEXPECTED"
                        THEN Append(s._sendersAwaitingStable, x)
                        ELSE s._sendersAwaitingStable

ReplaceTrackCorrect(s) ==
    \A oldTrack \in Tracks, newTrack \in Tracks, stream \in Streams,
       supported \in BOOLEAN :
        LET r == replaceTrack(Begin(s), oldTrack, newTrack, stream, supported)
            x == Sender(s, oldTrack, stream)
        IN  IF x = Null
            THEN r = throw(Begin(s), "ERR_TRACK_NOT_ADDED")
            ELSE /\ Sender(r, newTrack, stream) = x
                 /\ newTrack # oldTrack => Sender(r, oldTrack, stream) # x
                 /\ r._destroying = ~supported
                 /\ ~supported => r.destroyTimer = "ERR_UNSUPPORTED_REPLACETRACK"

\* C35: replaceTrack of a live peer is as ReplaceTrackCorrect says.
C35_ReplaceTrackReassigns == Live(peer) => ReplaceTrackCorrect(peer)

\* replaceTrack has returned, and the old track and the new track both map
\* to the one sender for the stream.
C35_BothAssociated ==
    /\ Called(peer, "replaceTrack") /\ Called(peer, "sender.replaceTrack")
    /\ Live(peer) /\ peer.thrown = Null
    /\ \E stream \in Streams :
           /\ Sender(peer, "t1", stream) # Null
           /\ Sender(peer, "t1", stream) = Sender(peer, "t2", stream)

\* ------------------------------------------------------------ remote media

\* Track events the engine delivers in one run.
MaxTrackEvents == 3

\* The streams of one track event.
EventStreams == {<<>>, <<"s1">>, <<"s2">>, <<"s1", "s2">>, <<"s2", "s1">>}

\* The body of _onTrack's forEach, for the streams of the event in turn:
\* 'track' is emitted, the pair is kept, and a stream whose id is not yet in
\* _remoteStreams is kept and its 'stream' event queued as a microtask.
RECURSIVE EachEventStream(_, _, _)
EachEventStream(s, track, streams) ==
    IF streams = <<>> THEN s
    ELSE LET eventStream == Head(streams)
             s1 == emit(s, "track:" \o track \o ":" \o eventStream)
             s2 == IF s1._pc THEN [s1 EXCEPT !._remoteTracks =
                                                 Append(@, <<track, eventStream>>)]
                   ELSE s1
             some == /\ s2._pc
                     /\ \E i \in DOMAIN s2._remoteStreams :
                            s2._remoteStreams[i] = eventStream
             s3 == IF s2._pc THEN [s2 EXCEPT !._remoteStreams = Append(@, eventStream)]
                   ELSE s2
         IN  EachEventStream(
                 IF some THEN s2
                 ELSE [s3 EXCEPT !.streamMicrotasks = Append(@, eventStream)],
                 track, Tail(streams))

\* _onTrack with the streams the peer has seen forgotten at each event.
_onTrack_Forget(s, track, streams) ==
    IF s.destroyed THEN s
    ELSE EachEventStream([s EXCEPT !._remoteStreams = <<>>], track, streams)

_onTrack(s, track, streams) ==
    IF s.destroyed THEN s ELSE EachEventStream(s, track, streams)

\* The microtask _onTrack queued: emit('stream', eventStream).
EmitStream(s) ==
    LET eventStream == Head(s.streamMicrotasks)
    IN  [emit(s, "stream:" \o eventStream)
            EXCEPT !.streamMicrotasks = Tail(@),
                   !.streamEvents[eventStream] = @ + 1]

\* A track event of the engine; it waits for the microtasks queued before it.
TOnTrack ==
    /\ Idle /\ peer.streamMicrotasks = <<>> /\ peer._pc
    /\ Len(peer.trackEvents) < MaxTrackEvents
    /\ \E track \in Tracks, streams \in EventStreams :
           Step([_onTrack(call(Begin(peer), "pc.ontrack"), track, streams)
                    EXCEPT !.trackEvents =
                               Append(@, [track |-> track, streams |-> streams])])

TStreamMicrotask ==
    /\ peer.streamMicrotasks # <<>>
    /\ Step(EmitStream(call(Begin(peer), "stream.microtask")))

TrackNext ==
    \/ Microtask
    \/ TOnTrack
    \/ TStreamMicrotask
    \/ CallDestroy
    \/ DestroyTimer

TrackSpec == Init /\ [][TrackNext]_vars

\* The stream ids of the track events delivered so far.
SeenStreams(s) ==
    UNION {{s.trackEvents[i].streams[j] : j \in DOMAIN s.trackEvents[i].streams} :
               i \in DOMAIN s.trackEvents}

\* The 'stream' events queued for the id.
StreamsQueued(s, id) ==
    Cardinality({i \in DOMAIN s.streamMicrotasks : s.streamMicrotasks[i] = id})

\* The 'track' events of the event: one for each of its streams, in order.
TracksOf(ev) ==
    [i \in DOMAIN ev.streams |-> "track:" \o ev.track \o ":" \o ev.streams[i]]

\* The streams of the event that no earlier event of s had.
Introduced(s, ev) == SelectSeq(ev.streams, LAMBDA id : id \notin SeenStreams(s))

\* C36: a track event emits 'track' for each of its streams and nothing else,
\* and queues 'stream' for exactly the streams it introduced; a queued
\* 'stream' is emitted by a later step, one at a time; so for every stream id
\* the 'stream' events emitted and queued are one if some event had the id,
\* and none otherwise.
C36_TrackAndStreamEvents ==
    /\ [](\A id \in Streams :
              peer.streamEvents[id] + StreamsQueued(peer, id)
                  = IF id \in SeenStreams(peer) THEN 1 ELSE 0)
    /\ [][Called(peer', "pc.ontrack") =>
              LET ev == peer'.trackEvents[Len(peer'.trackEvents)]
              IN  /\ peer'.emitted = TracksOf(ev)
                  /\ peer'.streamMicrotasks = Introduced(peer, ev)
                  /\ peer'.streamEvents = peer.streamEvents]_vars
    /\ [][Called(peer', "stream.microtask") =>
              /\ peer'.emitted = <<"stream:" \o Head(peer.streamMicrotasks)>>
              /\ peer'.trackEvents = peer.trackEvents]_vars

\* A second event with the stream "s1" was delivered: it emitted 'track' and
\* queued nothing, and 'stream' was emitted once for "s1".
C36_Witness ==
    /\ Called(peer, "pc.ontrack") /\ Len(peer.trackEvents) = 2
    /\ peer.trackEvents[1].streams = <<"s1", "s2">>
    /\ peer.trackEvents[2] = [track |-> "t2", streams |-> <<"s1">>]
    /\ peer.emitted = <<"track:t2:s1">>
    /\ peer.streamMicrotasks = <<>>
    /\ peer.streamEvents = [st \in Streams |-> 1]

\* The step called the engine's createOffer.
OfferCreated ==
    Called(peer', "pc.createOffer") \/ Called(peer', "pc.createOffer:iceRestart")

\* C37: an offer is created with the ICE-restart option exactly when
\* _isRestartingIce is set as it is created.
C37_IceRestartOption ==
    [][OfferCreated =>
           (Called(peer', "pc.createOffer:iceRestart") <=> peer._isRestartingIce)]_vars

\* The first offer after restartIce() was created without the option, while
\* _isRestartingIce was set.
C37_RestartOfferPlain ==
    /\ Called(peer, "pc.createOffer") /\ peer._isRestartingIce
    /\ peer.restartsSinceStable = 1 /\ peer.offerOptions.iceRestart

\* The (track, stream) pairs that map to the sender x.
PairsOf(s, x) ==
    {p \in Tracks \X Streams : Sender(s, p[1], p[2]) = x}

\* What replaceTrack of a pair that has a sender leaves alone, for every new
\* track and both kinds of sender: every pair other than (oldTrack, stream)
\* and (newTrack, stream) maps to what it mapped to before, and every live
\* sender is the sender of exactly one pair.
ReplaceTrackFrame(s) ==
    \A oldTrack \in Tracks, newTrack \in Tracks, stream \in Streams,
       supported \in BOOLEAN :
        Sender(s, oldTrack, stream) # Null =>
            LET r == replaceTrack(Begin(s), oldTrack, newTrack, stream, supported)
            IN  /\ \A p \in (Tracks \X Streams)
                              \ {<<oldTrack, stream>>, <<newTrack, stream>>} :
                       Sender(r, p[1], p[2]) = Sender(s, p[1], p[2])
                /\ \A x \in SenderIds :
                       r.senders[x] = "live" => Cardinality(PairsOf(r, x)) = 1

\* C38: replaceTrack of a live peer whose live senders each have one pair
\* leaves the other pairs and the one-pair-per-sender rule as they were.
C38_ReplaceTrackFrame ==
    (/\ Live(peer)
     /\ \A x \in SenderIds :
            peer.senders[x] = "live" => Cardinality(PairsOf(peer, x)) = 1)
        => ReplaceTrackFrame(peer)

\* replaceTrack has returned and left a live sender that no pair maps to.
C38_SenderOrphaned ==
    /\ Called(peer, "replaceTrack") /\ Called(peer, "sender.replaceTrack")
    /\ peer.thrown = Null
    /\ \E x \in SenderIds : peer.senders[x] = "live" /\ PairsOf(peer, x) = {}

\* C39: a live peer with a restart policy whose ICE connection state is
\* "failed" has a recovery timer pending.
C39_FailedHasRecoveryTimer ==
    (/\ Live(peer) /\ peer.iceRestartEnabled # "false"
     /\ peer.iceConnectionState = "failed")
        => peer.recoveryTimer > 0

\* A live peer with a restart policy is in "failed" with nothing left to run:
\* no recovery timer, no restart begun, no callback queued.
C39_FailedForGood ==
    /\ Live(peer) /\ peer.iceRestartEnabled # "false"
    /\ peer.iceConnectionState = "failed"
    /\ peer.recoveryTimer = 0 /\ ~peer._isRestartingIce
    /\ Pending(peer) = 0 /\ peer.destroyTimer = Null
    /\ peer.statsPending = 0 /\ peer.findPairTimers = 0

=============================================================================
